---- MODULE Spec2Model ----
(***************************************************************************)
(* A model of maptalks' OverlayLayer (src/src/layer/OverlayLayer.js): the  *)
(* ordered, id-indexed store of the geometries of one layer (_geoList and  *)
(* _geoMap), its add / remove / clear operations, its reactions to the     *)
(* events of its member geometries, and the identify query.                *)
(*                                                                         *)
(* The Geometry class is not among the source files; the few methods of    *)
(* it that the layer calls (getId/setId, getZIndex/setZIndex,              *)
(* _setInternalId, _bindLayer, remove) are modelled from the               *)
(* specification's data model and are named Geometry_* below.              *)
(***************************************************************************)
EXTENDS Integers, Sequences, FiniteSets

(***************************************************************************)
(* Bounds of the model.                                                    *)
(***************************************************************************)
\* UID() is called at most MaxUID times in a behaviour.
MaxUID == 3

\* The Geometry objects of the program, the external ids and the zIndex
\* values they may carry.
Geoms == {"g1", "g2", "g3"}
Ids == {"a", "b"}
ZValues == {0, 1}
\* The geometries the program renames, restacks and hands to another layer.
Renamed == {"g1"}
Restacked == {"g1"}
Shared == {"g3"}

\* null / undefined, as an array entry, as an external id and as a map slot.
NoGeo == "null"
NoId == "nil"

VARIABLES
    geoList,    \* OverlayLayer._geoList: a sequence of geometries
    geoMap,     \* OverlayLayer._geoMap: external id -> geometry (or NoGeo)
    gId,        \* Geometry._id of every geometry (NoId: none)
    gZ,         \* Geometry.getZIndex() of every geometry
    gIid,       \* Geometry._internalId of every geometry (0: undefined)
    gLayer,     \* Geometry.getLayer(): "none", "this" or "other"
    uid,        \* the process-wide counter behind UID()
    hasMap,     \* the layer is on a map and has a renderer
    op,         \* the call in progress, suspended in a listener callback
    last,       \* the call that has just returned or thrown, with what it emitted
    hist,       \* history: whether every call so far was a successful
                \* addGeometry, and if so the geometries in the order added
    iter,       \* the forEach in progress, suspended in its callback
    sym,        \* the symbolizer at work: its raw symbol and its resolved style
    owner,      \* the geometry the symbolizer draws: what it reads of it and
                \* the text cache kept on it
    ctx,        \* the drawing surface (a canvas 2d context)
    env,        \* the environment: IS_NODE, Browser.phantomjs, the resource
                \* cache and the console
    tool,       \* the map tools: _map and _enabled of every MapTool
    maps,       \* the maps: the '_tool' + name slots and the listeners that
                \* the tools have registered on the map
    lyr         \* the Layer: map, _renderer, _loaded, _mask, _zIndex

vars == <<geoList, geoMap, gId, gZ, gIid, gLayer, uid, hasMap, op, last, hist, iter, sym,
         owner, ctx, env, tool, maps, lyr>>

EmptyMap == [k \in Ids |-> NoGeo]

\* What addGeometry keeps for fitView: the argument, what getCenter() and
\* getExtent() of the geometries give (see FitEntry), centerSum, extent and
\* fitCounter.  NoFit: fitView is not asked for.
NoExtent == [xmin |-> 0, xmax |-> -1]
NoFit ==
    [fitView |-> "false", shapes |-> [g \in Geoms |-> "none"],
     centerSum |-> 0, extent |-> NoExtent, fitCounter |-> 0]

\* No call is in progress / no call has been made.
Idle ==
    [kind |-> "idle", batch |-> <<>>, i |-> 0, notes |-> <<>>,
     preList |-> <<>>, preMap |-> EmptyMap, fit |-> NoFit]

NoCall ==
    [call |-> "none", args |-> <<>>, thrown |-> "none", index |-> -1, id |-> NoId,
     notes |-> <<>>]

\* No forEach is in progress.
NoIter == [kind |-> "none", members |-> <<>>, copyOnWrite |-> <<>>, i |-> 0, visited |-> <<>>]

\* No symbolizer is at work.
NoSym == [symbol |-> <<>>, style |-> <<>>]

\* No geometry is drawn, on no surface, and the environment is not looked at.
NoOwner == [properties |-> "none"]
NoCtx == [globalAlpha |-> "none"]
NoEnv == [IS_NODE |-> FALSE]

\* No map tool, no map and no layer are at work.
NoTools == <<>>
NoMaps == <<>>
NoLayer == [map |-> "none"]

\* The history once a call other than a successful addGeometry was made.
Dirty == [clean |-> FALSE, added |-> <<>>]

\* The program is between two calls: none is in progress and the outcome of
\* the last one has been taken.
Ready == op.kind = "idle" /\ last.call = "none"

\* One notification: a geometry event, a layer event or a renderer call.
Note(ev, arg) == [ev |-> ev, arg |-> arg]

Range(s) == {s[k] : k \in 1..Len(s)}

Count(s, x) == Cardinality({k \in 1..Len(s) : s[k] = x})

\* The arrays handed to addGeometry and removeGeometry: of no, one or two
\* entries.
Arrays(S) == {<<>>} \cup {<<x>> : x \in S} \cup {<<x, y>> : x \in S, y \in S}

(***************************************************************************)
(* The comparator, the sort and the binary search.                         *)
(***************************************************************************)
\* A comparator that leaves the zIndex out and orders by internal id alone.
CompareByInternalId(z, iid, a, b) ==
    iid[a] - iid[b]

\* _compare(a, b) over the geometries' current zIndex and internal id.
Compare(z, iid, a, b) ==
    IF z[a] = z[b] THEN iid[a] - iid[b] ELSE z[a] - z[b]

\* _compare(a, b) is NaN: equal zIndex and an internal id that is undefined.
CompareIsNaN(z, iid, a, b) ==
    z[a] = z[b] /\ (iid[a] = 0 \/ iid[b] = 0)

\* s is ordered by the comparator.
IsSorted(s, z, iid) ==
    \A j, k \in 1..Len(s) : j < k => Compare(z, iid, s[j], s[k]) <= 0

\* The rearrangements of s.
Rearrangements(s) ==
    {t \in [1..Len(s) -> Range(s)] : \A x \in Range(s) : Count(t, x) = Count(s, x)}

RECURSIVE InsertInOrder(_, _, _, _)
InsertInOrder(s, z, iid, x) ==
    IF s = <<>> THEN <<x>>
    ELSE IF Compare(z, iid, s[Len(s)], x) <= 0 THEN Append(s, x)
    ELSE Append(InsertInOrder(SubSeq(s, 1, Len(s) - 1), z, iid, x), s[Len(s)])

RECURSIVE StableSort(_, _, _)
StableSort(s, z, iid) ==
    IF s = <<>> THEN <<>>
    ELSE InsertInOrder(StableSort(SubSeq(s, 1, Len(s) - 1), z, iid), z, iid, s[Len(s)])

\* _sortGeometries(): Array.prototype.sort with _compare.  When a member has
\* no internal id, _compare yields NaN against members of its zIndex, the
\* comparator is not a consistent one and the order that results is
\* implementation-defined: any rearrangement.
SortGeometries(s, z, iid) ==
    IF \A k \in 1..Len(s) : iid[s[k]] # 0
    THEN {StableSort(s, z, iid)}
    ELSE Rearrangements(s)

\* _findInList(geo): the index (from 1) of geo, 0 where the code returns -1.
RECURSIVE BinarySearch(_, _, _, _, _, _)
BinarySearch(s, z, iid, geo, low, high) ==
    IF low > high THEN 0
    ELSE LET middle == (low + high) \div 2 IN
         IF s[middle] = geo THEN middle
         ELSE IF ~CompareIsNaN(z, iid, s[middle], geo)
                 /\ Compare(z, iid, s[middle], geo) > 0
              THEN BinarySearch(s, z, iid, geo, low, middle - 1)
              ELSE BinarySearch(s, z, iid, geo, middle + 1, high)

FindInList(s, z, iid, geo) == BinarySearch(s, z, iid, geo, 1, Len(s))

\* The empty string as an id.
EmptyId == ""

\* getGeometryById(id)
GetGeometryById(map, id) ==
    IF id = NoId \/ id \notin Ids THEN NoGeo ELSE map[id]

Init ==
    /\ geoList = <<>>
    /\ geoMap = EmptyMap
    /\ gId \in {[g \in Geoms |-> IF g = "g3" THEN NoId ELSE "a"]}
    /\ gZ = [g \in Geoms |-> 0]
    /\ gIid = [g \in Geoms |-> 0]
    /\ gLayer = [g \in Geoms |-> "none"]
    /\ uid = 0
    /\ hasMap = TRUE
    /\ op = Idle
    /\ last = NoCall
    /\ hist = [clean |-> TRUE, added |-> <<>>]
    /\ iter = NoIter
    /\ sym = NoSym
    /\ owner = NoOwner
    /\ ctx = NoCtx
    /\ env = NoEnv
    /\ tool = NoTools
    /\ maps = NoMaps
    /\ lyr = NoLayer

(***************************************************************************)
(* addGeometry(geometries, fitView), one array entry at a time: the call   *)
(* is suspended in the listeners of each entry's 'add' event, where the    *)
(* store is visible to the program, and ends with the sort and the         *)
(* batch-level notifications.                                              *)
(***************************************************************************)
\* The record of a call of addGeometry that has ended.
\* A thrown error carries the index of the entry and, for a duplicate, the id.
AddCall(thrown, index, id, notes) ==
    [call |-> "add", args |-> <<>>, thrown |-> thrown, index |-> index, id |-> id,
     notes |-> notes]

\* The duplicate-id test of addGeometry: the entry has an id and the map
\* holds a geometry under it.
IsDuplicateId(map, geoId) ==
    geoId # NoId /\ map[geoId] # NoGeo

\* Geometry._bindLayer(layer) throws when the geometry already has a layer.
Geometry_bindLayerThrows(layer, geo) ==
    layer[geo] # "none"

\* The centre and the extent of the geometries (on one axis), for those
\* that have them.
Geometry_getCenter(geo) ==
    CASE geo = "g1" -> 0
      [] geo = "g2" -> 4
      [] geo = "g3" -> 8

Geometry_getExtent(geo) ==
    [xmin |-> Geometry_getCenter(geo) - 1, xmax |-> Geometry_getCenter(geo) + 3]

\* Extent._combine
Combine(e1, e2) ==
    [xmin |-> IF e1.xmin < e2.xmin THEN e1.xmin ELSE e2.xmin,
     xmax |-> IF e1.xmax > e2.xmax THEN e1.xmax ELSE e2.xmax]

\* A fitView that counts every geometry that has a centre.
FitEntryCenterOnly(fit, geo) ==
    IF fit.fitView = "true"
    THEN IF fit.shapes[geo] \in {"both", "center"}
         THEN [fit EXCEPT !.centerSum = @ + Geometry_getCenter(geo),
                          !.extent = IF fit.shapes[geo] # "both" THEN @
                                     ELSE IF @ = NoExtent THEN Geometry_getExtent(geo)
                                     ELSE Combine(@, Geometry_getExtent(geo)),
                          !.fitCounter = @ + 1]
         ELSE fit
    ELSE fit

\* The fitView part of the loop body of addGeometry: when fitView is true
\* and the geometry has a centre and an extent, they are added to centerSum
\* and combined into extent, and fitCounter is incremented.
FitEntry(fit, geo) ==
    IF fit.fitView = "true"
    THEN IF fit.shapes[geo] = "both"
         THEN [fit EXCEPT !.centerSum = @ + Geometry_getCenter(geo),
                          !.extent = IF @ = NoExtent THEN Geometry_getExtent(geo)
                                     ELSE Combine(@, Geometry_getExtent(geo)),
                          !.fitCounter = @ + 1]
         ELSE fit
    ELSE fit

\* The end of addGeometry on a map: with a fitView that is not false and an
\* extent, map.setCenterAndZoom(centerSum / fitCounter, map.getFitZoom(extent)).
\* The centre is given as the sum and the count it is divided by.
FitView(fit, onMap) ==
    IF onMap /\ fit.fitView # "false" /\ fit.extent # NoExtent
    THEN <<Note("setCenterAndZoom", <<fit.centerSum, fit.fitCounter, fit.extent>>)>>
    ELSE <<>>

\* A loop body of addGeometry that numbers a geometry by its place in the
\* list instead of by UID().
AddEntryIdFromLength(batch, i, notes, preList, preMap, fit) ==
    LET geo == batch[i]
        geoId == IF geo = NoGeo THEN NoId ELSE gId[geo]
    IN
    IF geo = NoGeo THEN
        /\ last' = AddCall("invalid", i - 1, NoId, notes)
        /\ op' = Idle
        /\ hist' = Dirty
        /\ UNCHANGED <<geoList, geoMap, gId, gZ, gIid, gLayer, uid, hasMap, iter, sym, owner, ctx, env, tool, maps, lyr>>
    ELSE IF IsDuplicateId(geoMap, geoId) THEN
        /\ last' = AddCall("duplicate", i - 1, geoId, notes)
        /\ op' = Idle
        /\ hist' = Dirty
        /\ UNCHANGED <<geoList, geoMap, gId, gZ, gIid, gLayer, uid, hasMap, iter, sym, owner, ctx, env, tool, maps, lyr>>
    ELSE
        /\ geoMap' = IF geoId # NoId THEN [geoMap EXCEPT ![geoId] = geo] ELSE geoMap
        /\ uid' = uid + 1
        /\ gIid' = [gIid EXCEPT ![geo] = Len(geoList) + 1]
        /\ geoList' = Append(geoList, geo)
        /\ IF Geometry_bindLayerThrows(gLayer, geo)
           THEN /\ gLayer' = gLayer
                /\ op' = Idle
                /\ last' = AddCall("bound", i - 1, NoId, notes)
                /\ hist' = Dirty
           ELSE /\ gLayer' = [gLayer EXCEPT ![geo] = "this"]
                /\ op' = [kind |-> "add", batch |-> batch, i |-> i + 1,
                          notes |-> Append(notes, Note("add", <<geo>>)),
                          preList |-> preList, preMap |-> preMap,
                          fit |-> FitEntry(fit, geo)]
                /\ last' = NoCall
                /\ hist' = IF hist.clean
                           THEN [hist EXCEPT !.added = Append(hist.added, geo)]
                           ELSE hist
        /\ UNCHANGED <<gId, gZ, hasMap, iter, sym, owner, ctx, env, tool, maps, lyr>>

\* The body of the loop of addGeometry for entry i (from 1) of batch.
AddEntry(batch, i, notes, preList, preMap, fit) ==
    LET geo == batch[i]
        geoId == IF geo = NoGeo THEN NoId ELSE gId[geo]
    IN
    IF geo = NoGeo THEN
        /\ last' = AddCall("invalid", i - 1, NoId, notes)
        /\ op' = Idle
        /\ hist' = Dirty
        /\ UNCHANGED <<geoList, geoMap, gId, gZ, gIid, gLayer, uid, hasMap, iter, sym, owner, ctx, env, tool, maps, lyr>>
    ELSE IF IsDuplicateId(geoMap, geoId) THEN
        /\ last' = AddCall("duplicate", i - 1, geoId, notes)
        /\ op' = Idle
        /\ hist' = Dirty
        /\ UNCHANGED <<geoList, geoMap, gId, gZ, gIid, gLayer, uid, hasMap, iter, sym, owner, ctx, env, tool, maps, lyr>>
    ELSE
        /\ geoMap' = IF geoId # NoId THEN [geoMap EXCEPT ![geoId] = geo] ELSE geoMap
        /\ uid' = uid + 1
        /\ gIid' = [gIid EXCEPT ![geo] = uid + 1]
        /\ geoList' = Append(geoList, geo)
        /\ IF Geometry_bindLayerThrows(gLayer, geo)
           THEN /\ gLayer' = gLayer
                /\ op' = Idle
                /\ last' = AddCall("bound", i - 1, NoId, notes)
                /\ hist' = Dirty
           ELSE /\ gLayer' = [gLayer EXCEPT ![geo] = "this"]
                /\ op' = [kind |-> "add", batch |-> batch, i |-> i + 1,
                          notes |-> Append(notes, Note("add", <<geo>>)),
                          preList |-> preList, preMap |-> preMap,
                          fit |-> FitEntry(fit, geo)]
                /\ last' = NoCall
                /\ hist' = IF hist.clean
                           THEN [hist EXCEPT !.added = Append(hist.added, geo)]
                           ELSE hist
        /\ UNCHANGED <<gId, gZ, hasMap, iter, sym, owner, ctx, env, tool, maps, lyr>>

\* addGeometry(batch, fitView) is called: an empty array returns at once,
\* otherwise the first entry is processed.  shapes: which of their centre
\* and extent the geometries have during the call.
AddGeometry(batch, fitView, shapes) ==
    /\ Ready
    /\ uid + Len(batch) <= MaxUID
    /\ IF batch = <<>>
       THEN /\ last' = AddCall("none", -1, NoId, <<>>)
            /\ UNCHANGED <<geoList, geoMap, gId, gZ, gIid, gLayer, uid, hasMap, op, hist, iter, sym, owner, ctx, env, tool, maps, lyr>>
       ELSE AddEntry(batch, 1, <<>>, geoList, geoMap,
                     [NoFit EXCEPT !.fitView = fitView, !.shapes = shapes])

\* The listeners of the 'add' event return and the loop goes on.
AddNext ==
    /\ op.kind = "add"
    /\ op.i <= Len(op.batch)
    /\ AddEntry(op.batch, op.i, op.notes, op.preList, op.preMap, op.fit)

\* An end of addGeometry that fires 'addgeo' before it tells the renderer.
AddFinishAddgeoFirst ==
    /\ op.kind = "add"
    /\ op.i > Len(op.batch)
    /\ geoList' \in SortGeometries(geoList, gZ, gIid)
    /\ last' = AddCall("none", -1, NoId,
                       op.notes
                         \o <<Note("addgeo", op.batch)>>
                         \o (IF hasMap THEN <<Note("onGeometryAdd", op.batch)>> ELSE <<>>)
                         \o FitView(op.fit, hasMap))
    /\ op' = Idle
    /\ UNCHANGED <<geoMap, gId, gZ, gIid, gLayer, uid, hasMap, hist, iter, sym, owner, ctx, env, tool, maps, lyr>>

\* After the last entry: _sortGeometries(), the renderer's onGeometryAdd and
\* the fit of the view when the layer is on a map, and the 'addgeo' event.
AddFinish ==
    /\ op.kind = "add"
    /\ op.i > Len(op.batch)
    /\ geoList' \in SortGeometries(geoList, gZ, gIid)
    /\ last' = AddCall("none", -1, NoId,
                       op.notes
                         \o (IF hasMap THEN <<Note("onGeometryAdd", op.batch)>> ELSE <<>>)
                         \o FitView(op.fit, hasMap)
                         \o <<Note("addgeo", op.batch)>>)
    /\ op' = Idle
    /\ UNCHANGED <<geoMap, gId, gZ, gIid, gLayer, uid, hasMap, hist, iter, sym, owner, ctx, env, tool, maps, lyr>>

(***************************************************************************)
(* Removal.  The removal of a geometry runs inside Geometry.remove(),      *)
(* which calls back the layer's onRemoveGeometry and then unbinds the      *)
(* geometry.  A store is a record of what a removal reads and writes.      *)
(***************************************************************************)
Store(list, map, layer, iid, notes) ==
    [list |-> list, map |-> map, layer |-> layer, iid |-> iid, notes |-> notes]

\* s without its entry at index idx.
Splice(s, idx) == SubSeq(s, 1, idx - 1) \o SubSeq(s, idx + 1, Len(s))

\* An onRemoveGeometry that leaves the geometry's entry in the id map.
OnRemoveGeometryKeepsId(st, geo, clearing) ==
    IF geo = NoGeo \/ clearing THEN st
    ELSE IF st.layer[geo] # "this" THEN st
    ELSE IF st.iid[geo] = 0 THEN st
    ELSE LET idx == BinarySearch(st.list, gZ, st.iid, geo, 1, Len(st.list))
             list1 == IF idx >= 1 THEN Splice(st.list, idx) ELSE st.list
             notes1 == IF hasMap
                       THEN Append(st.notes, [ev |-> "onGeometryRemove", arg |-> <<geo>>])
                       ELSE st.notes
         IN  [st EXCEPT !.list = list1, !.notes = notes1]

\* onRemoveGeometry(geometry), with the layer's _clearing flag.
OnRemoveGeometry(st, geo, clearing) ==
    IF geo = NoGeo \/ clearing THEN st
    ELSE IF st.layer[geo] # "this" THEN st
    ELSE IF st.iid[geo] = 0 THEN st
    ELSE LET geoId == gId[geo]
             map1 == IF geoId # NoId THEN [st.map EXCEPT ![geoId] = NoGeo] ELSE st.map
             idx == FindInList(st.list, gZ, st.iid, geo)
             list1 == IF idx >= 1 THEN Splice(st.list, idx) ELSE st.list
             notes1 == IF hasMap
                       THEN Append(st.notes, Note("onGeometryRemove", <<geo>>))
                       ELSE st.notes
         IN  [st EXCEPT !.map = map1, !.list = list1, !.notes = notes1]

\* Geometry.remove(): nothing without a layer; otherwise the layer's
\* onRemoveGeometry, then the layer and the internal id are deleted and
\* the geometry's 'remove' event fires.
Geometry_remove(st, geo, clearing) ==
    IF st.layer[geo] = "none" THEN st
    ELSE LET st1 == IF st.layer[geo] = "this"
                    THEN OnRemoveGeometry(st, geo, clearing)
                    ELSE st
         IN  [st1 EXCEPT !.layer[geo] = "none", !.iid[geo] = 0,
                         !.notes = Append(st1.notes, Note("remove", <<geo>>))]

\* The loop of removeGeometry, from the last entry of the array to the
\* first: an entry that is not a geometry is replaced by getGeometryById of
\* it, and an entry that resolves to nothing or to a geometry of another
\* layer is skipped.
RECURSIVE RemoveLoop(_, _, _)
RemoveLoop(st, geometries, i) ==
    IF i = 0 THEN [st |-> st, geometries |-> geometries]
    ELSE LET geo == IF geometries[i] \in Geoms
                    THEN geometries[i]
                    ELSE GetGeometryById(st.map, geometries[i])
             resolved == [geometries EXCEPT ![i] = geo]
         IN  IF geo = NoGeo \/ st.layer[geo] # "this"
             THEN RemoveLoop(st, resolved, i - 1)
             ELSE RemoveLoop(Geometry_remove(st, geo, FALSE), resolved, i - 1)

\* The record of a call other than addGeometry that has ended.
Call(name, args, thrown, notes) ==
    [call |-> name, args |-> args, thrown |-> thrown, index |-> -1, id |-> NoId,
     notes |-> notes]

\* A removeGeometry that, as addGeometry and clear do, tells the renderer of
\* the whole array after the loop.
RemoveGeometryTellsRenderer(geometries) ==
    /\ Ready
    /\ geometries # <<>>
    /\ LET r == RemoveLoop(Store(geoList, geoMap, gLayer, gIid, <<>>),
                           geometries, Len(geometries))
       IN  /\ geoList' = r.st.list
           /\ geoMap' = r.st.map
           /\ gLayer' = r.st.layer
           /\ gIid' = r.st.iid
           /\ last' = Call("remove", geometries, "none",
                           r.st.notes
                             \o (IF hasMap
                                 THEN <<Note("onGeometryRemove", r.geometries)>>
                                 ELSE <<>>)
                             \o <<Note("removegeo", r.geometries)>>)
    /\ hist' = Dirty
    /\ UNCHANGED <<gId, gZ, uid, hasMap, op, iter, sym, owner, ctx, env, tool, maps, lyr>>

\* removeGeometry(geometries): the loop, then the 'removegeo' event.
RemoveGeometry(geometries) ==
    /\ Ready
    /\ geometries # <<>>
    /\ LET r == RemoveLoop(Store(geoList, geoMap, gLayer, gIid, <<>>),
                           geometries, Len(geometries))
       IN  /\ geoList' = r.st.list
           /\ geoMap' = r.st.map
           /\ gLayer' = r.st.layer
           /\ gIid' = r.st.iid
           /\ last' = Call("remove", geometries, "none",
                           Append(r.st.notes, Note("removegeo", r.geometries)))
    /\ hist' = Dirty
    /\ UNCHANGED <<gId, gZ, uid, hasMap, op, iter, sym, owner, ctx, env, tool, maps, lyr>>

\* removeGeometry([geo]) of the other layer, for a geometry bound to it: the
\* geometry loses its layer and its internal id.
OtherLayerRemove(geo) ==
    /\ Ready
    /\ gLayer[geo] = "other"
    /\ LET st == Geometry_remove(Store(geoList, geoMap, gLayer, gIid, <<>>), geo, FALSE)
       IN  /\ gLayer' = st.layer
           /\ gIid' = st.iid
    /\ last' = NoCall
    /\ UNCHANGED <<geoList, geoMap, gId, gZ, uid, hasMap, op, hist, iter, sym, owner, ctx, env, tool, maps, lyr>>

\* getCount()
GetCount(list) == Len(list)

\* getExtent(): null for an empty layer, otherwise a new Extent combined with
\* the extent of every member (given here by the members it was combined with).
GetExtent(list) ==
    IF GetCount(list) = 0
    THEN [null |-> TRUE, of |-> {}]
    ELSE [null |-> FALSE, of |-> Range(list)]

\* A forEach of clear() that runs without the _clearing flag.
RECURSIVE ClearLoopNotClearing(_, _, _)
ClearLoopNotClearing(st, copyOnWrite, i) ==
    IF i > Len(copyOnWrite) THEN st
    ELSE ClearLoopNotClearing(Geometry_remove(st, copyOnWrite[i], FALSE), copyOnWrite, i + 1)

\* The forEach of clear(): geo.remove() on every entry of a copy of the list,
\* with _clearing set.
RECURSIVE ClearLoop(_, _, _)
ClearLoop(st, copyOnWrite, i) ==
    IF i > Len(copyOnWrite) THEN st
    ELSE ClearLoop(Geometry_remove(st, copyOnWrite[i], TRUE), copyOnWrite, i + 1)

\* A clear() that replaces the list and leaves the id map as it is.
ClearKeepsMap ==
    /\ Ready
    /\ LET st == ClearLoop(Store(geoList, geoMap, gLayer, gIid, <<>>), geoList, 1)
       IN  /\ geoList' = <<>>
           /\ geoMap' = st.map
           /\ gLayer' = st.layer
           /\ gIid' = st.iid
           /\ last' = Call("clear", <<>>, "none",
                           st.notes
                             \o (IF hasMap THEN <<Note("onGeometryRemove", geoList)>> ELSE <<>>)
                             \o <<Note("clear", <<>>)>>)
    /\ hist' = Dirty
    /\ UNCHANGED <<gId, gZ, uid, hasMap, op, iter, sym, owner, ctx, env, tool, maps, lyr>>

\* clear(): every member is removed with _clearing set, the map and the list
\* are replaced by empty ones, the renderer is told of the old list and the
\* 'clear' event fires.
Clear ==
    /\ Ready
    /\ LET st == ClearLoop(Store(geoList, geoMap, gLayer, gIid, <<>>), geoList, 1)
       IN  /\ geoList' = <<>>
           /\ geoMap' = EmptyMap
           /\ gLayer' = st.layer
           /\ gIid' = st.iid
           /\ last' = Call("clear", <<>>, "none",
                           st.notes
                             \o (IF hasMap THEN <<Note("onGeometryRemove", geoList)>> ELSE <<>>)
                             \o <<Note("clear", <<>>)>>)
    /\ hist' = Dirty
    /\ UNCHANGED <<gId, gZ, uid, hasMap, op, iter, sym, owner, ctx, env, tool, maps, lyr>>

(***************************************************************************)
(* The reactions to the events of a member geometry.                       *)
(***************************************************************************)
\* An _onGeometryIdChange that never deletes the entry under the old id.
OnGeometryIdChangeKeepsOld(map, old, new, target) ==
    IF new = old /\ old # NoId /\ map[old] = target
    THEN [map |-> map, thrown |-> "none"]
    ELSE IF new # NoId /\ map[new] # NoGeo
    THEN [map |-> map, thrown |-> "duplicate"]
    ELSE [map |-> IF new # NoId THEN [map EXCEPT ![new] = target] ELSE map,
          thrown |-> "none"]

\* _onGeometryIdChange(param): the map afterwards and whether it threw.
OnGeometryIdChange(map, old, new, target) ==
    IF new = old /\ old # NoId /\ map[old] = target
    THEN [map |-> map, thrown |-> "none"]
    ELSE IF new # NoId /\ map[new] # NoGeo
    THEN [map |-> map, thrown |-> "duplicate"]
    ELSE LET map1 == IF new # NoId THEN [map EXCEPT ![new] = target] ELSE map
             map2 == IF old # NoId /\ new # old THEN [map1 EXCEPT ![old] = NoGeo] ELSE map1
         IN  [map |-> map2, thrown |-> "none"]

\* Geometry.setId(id): the id is stored, then 'idchange' is fired, which
\* reaches _onGeometryEvent of the geometry's layer.
SetId(geo, id) ==
    /\ Ready
    /\ gId' = [gId EXCEPT ![geo] = id]
    /\ IF gLayer[geo] = "this"
       THEN LET r == OnGeometryIdChange(geoMap, gId[geo], id, geo)
            IN  /\ geoMap' = r.map
                /\ last' = Call("setId", <<geo, id>>, r.thrown, <<>>)
                /\ hist' = Dirty
       ELSE /\ geoMap' = geoMap
            /\ last' = NoCall
            /\ hist' = hist
    /\ UNCHANGED <<geoList, gZ, gIid, gLayer, uid, hasMap, op, iter, sym, owner, ctx, env, tool, maps, lyr>>

\* A setZIndex whose reaction sorts and tells the renderer whether or not the
\* zIndex changed.
SetZIndexAlwaysTells(geo, z) ==
    /\ Ready
    /\ gZ' = [gZ EXCEPT ![geo] = z]
    /\ IF gLayer[geo] = "this"
       THEN /\ geoList' \in SortGeometries(geoList, gZ', gIid)
            /\ last' = Call("setZIndex", <<geo>>, "none",
                            IF hasMap THEN <<Note("onGeometryZIndexChange", <<geo>>)>>
                            ELSE <<>>)
            /\ hist' = Dirty
       ELSE /\ geoList' = geoList
            /\ last' = NoCall
            /\ hist' = hist
    /\ UNCHANGED <<geoMap, gId, gIid, gLayer, uid, hasMap, op, iter, sym, owner, ctx, env, tool, maps, lyr>>

\* Geometry.setZIndex(z): the zIndex is stored, then 'zindexchange' is fired;
\* _onGeometryZIndexChange sorts and tells the renderer when old # new.
SetZIndex(geo, z) ==
    /\ Ready
    /\ gZ' = [gZ EXCEPT ![geo] = z]
    /\ IF gLayer[geo] = "this"
       THEN IF gZ[geo] # z
            THEN /\ geoList' \in SortGeometries(geoList, gZ', gIid)
                 /\ last' = Call("setZIndex", <<geo>>, "none",
                                 IF hasMap THEN <<Note("onGeometryZIndexChange", <<geo>>)>>
                                 ELSE <<>>)
                 /\ hist' = Dirty
            ELSE /\ geoList' = geoList
                 /\ last' = Call("setZIndex", <<geo>>, "none", <<>>)
                 /\ hist' = Dirty
       ELSE /\ geoList' = geoList
            /\ last' = NoCall
            /\ hist' = hist
    /\ UNCHANGED <<geoMap, gId, gIid, gLayer, uid, hasMap, op, iter, sym, owner, ctx, env, tool, maps, lyr>>

\* addGeometry([geo]) of another OverlayLayer: the geometry is given a fresh
\* internal id and is then bound to that layer, unless it has a layer, in
\* which case _bindLayer throws.
OtherLayerAdd(geo) ==
    /\ Ready
    /\ uid + 1 <= MaxUID
    /\ uid' = uid + 1
    /\ gIid' = [gIid EXCEPT ![geo] = uid + 1]
    /\ gLayer' = IF Geometry_bindLayerThrows(gLayer, geo)
                 THEN gLayer
                 ELSE [gLayer EXCEPT ![geo] = "other"]
    /\ last' = NoCall
    /\ hist' = IF gLayer[geo] = "this" THEN Dirty ELSE hist
    /\ UNCHANGED <<geoList, geoMap, gId, gZ, hasMap, op, iter, sym, owner, ctx, env, tool, maps, lyr>>

\* The caller takes the outcome of the call that ended (its return, or the
\* exception it threw) and the program goes on.
Return ==
    /\ op.kind = "idle"
    /\ last.call # "none"
    /\ last' = NoCall
    /\ UNCHANGED <<geoList, geoMap, gId, gZ, gIid, gLayer, uid, hasMap, op, hist, iter, sym, owner, ctx, env, tool, maps, lyr>>

Next ==
    \/ \E batch \in Arrays(Geoms \cup {NoGeo}) : AddGeometry(batch, "false", NoFit.shapes)
    \/ AddNext
    \/ AddFinish
    \/ \E geometries \in Arrays(Geoms \cup Ids \cup {NoId}) : RemoveGeometry(geometries)
    \/ \E geo \in Shared : OtherLayerRemove(geo)
    \/ Return
    \/ Clear
    \/ \E geo \in Renamed, id \in Ids \cup {NoId} : SetId(geo, id)
    \/ \E geo \in Restacked, z \in ZValues : SetZIndex(geo, z)
    \/ \E geo \in Shared : OtherLayerAdd(geo)

Spec == Init /\ [][Next]_vars

(***************************************************************************)
(* identify(coordinate, options).  What the query reads of a geometry      *)
(* (isVisible, _getPainter, the painter's container extent, the arrow      *)
(* style of a LineString, _containsPoint) is given by a scene: the class   *)
(* of every geometry with respect to the query point.                      *)
(*   hidden     not visible                                                *)
(*   unpainted  visible, without a painter                                 *)
(*   outside    painted, the point outside its container extent            *)
(*   near       the point inside the extent and outside the shape          *)
(*   hit        the point inside the extent and inside the shape           *)
(*   arrow      a LineString with an arrow style, the point outside the    *)
(*              extent and on the arrow                                    *)
(***************************************************************************)
Classes == {"hidden", "unpainted", "outside", "near", "hit", "arrow"}
Scenes == [Geoms -> Classes]

\* The largest options.count of a query (0: no count given).
MaxCount == 2

\* options: a filter function (given by the geometries it accepts) or none,
\* and a count or none.
Options ==
    {[hasFilter |-> FALSE, accepts |-> {}, count |-> c] : c \in 0..MaxCount}
      \cup [hasFilter : {TRUE}, accepts : SUBSET Geoms, count : 0..MaxCount]

Geometry_isVisible(scene, geo) == scene[geo] # "hidden"
Geometry_getPainter(scene, geo) == scene[geo] # "unpainted"
Geometry_isArrowLine(scene, geo) == scene[geo] = "arrow"
Painter_extentContains(scene, geo) == scene[geo] \in {"near", "hit"}
Geometry_containsPoint(scene, geo) == scene[geo] \in {"hit", "arrow"}

\* A loop of identify that stops one hit late: it compares the hits with the
\* count by > where the code has >=.
RECURSIVE IdentifyLoopStopsLate(_, _, _, _, _)
IdentifyLoopStopsLate(geometries, scene, options, i, hits) ==
    IF i = 0 THEN hits
    ELSE LET geo == geometries[i] IN
         IF geo = NoGeo \/ ~Geometry_isVisible(scene, geo) \/ ~Geometry_getPainter(scene, geo)
         THEN IdentifyLoopStopsLate(geometries, scene, options, i - 1, hits)
         ELSE IF ~Geometry_isArrowLine(scene, geo) /\ ~Painter_extentContains(scene, geo)
         THEN IdentifyLoopStopsLate(geometries, scene, options, i - 1, hits)
         ELSE IF Geometry_containsPoint(scene, geo)
                 /\ (~options.hasFilter \/ geo \in options.accepts)
         THEN IF options.count # 0 /\ Len(hits) + 1 > options.count
              THEN Append(hits, geo)
              ELSE IdentifyLoopStopsLate(geometries, scene, options, i - 1, Append(hits, geo))
         ELSE IdentifyLoopStopsLate(geometries, scene, options, i - 1, hits)

\* The loop of identify from index i (from 1) down, with the hits so far.
RECURSIVE IdentifyLoop(_, _, _, _, _)
IdentifyLoop(geometries, scene, options, i, hits) ==
    IF i = 0 THEN hits
    ELSE LET geo == geometries[i] IN
         IF geo = NoGeo \/ ~Geometry_isVisible(scene, geo) \/ ~Geometry_getPainter(scene, geo)
         THEN IdentifyLoop(geometries, scene, options, i - 1, hits)
         ELSE IF ~Geometry_isArrowLine(scene, geo) /\ ~Painter_extentContains(scene, geo)
         THEN IdentifyLoop(geometries, scene, options, i - 1, hits)
         ELSE IF Geometry_containsPoint(scene, geo)
                 /\ (~options.hasFilter \/ geo \in options.accepts)
         THEN IF options.count # 0 /\ Len(hits) + 1 >= options.count
              THEN Append(hits, geo)
              ELSE IdentifyLoop(geometries, scene, options, i - 1, Append(hits, geo))
         ELSE IdentifyLoop(geometries, scene, options, i - 1, hits)

\* identify(coordinate, options): the hits, topmost first.  On a layer that
\* is not on a map getMap() is null and map.coordinateToPoint throws a
\* TypeError before the loop.
Identify(scene, options) ==
    /\ Ready
    /\ IF hasMap
       THEN LET hits == IdentifyLoop(geoList, scene, options, Len(geoList), <<>>)
            IN  last' = Call("identify", <<scene, options>>, "none",
                             [k \in 1..Len(hits) |-> Note("hit", <<hits[k]>>)])
       ELSE last' = Call("identify", <<scene, options>>, "TypeError", <<>>)
    /\ UNCHANGED <<geoList, geoMap, gId, gZ, gIid, gLayer, uid, hasMap, op, hist, iter, sym, owner, ctx, env, tool, maps, lyr>>

\* The stores the query is run on: every sequence of up to three geometries
\* without external ids, as pushed by addGeometry calls in that order (a
\* repeated geometry was pushed again by an addGeometry that then threw).
LastIndexOf(s, x) ==
    IF x \in Range(s) THEN CHOOSE k \in 1..Len(s) : s[k] = x /\ \A j \in k + 1..Len(s) : s[j] # x
    ELSE 0

InitIdentify ==
    /\ geoList \in UNION {[1..n -> Geoms] : n \in 0..MaxUID}
    /\ geoMap = EmptyMap
    /\ gId = [g \in Geoms |-> NoId]
    /\ gZ = [g \in Geoms |-> 0]
    /\ gIid = [g \in Geoms |-> LastIndexOf(geoList, g)]
    /\ gLayer = [g \in Geoms |-> IF g \in Range(geoList) THEN "this" ELSE "none"]
    /\ uid = Len(geoList)
    /\ hasMap \in BOOLEAN
    /\ op = Idle
    /\ last = NoCall
    /\ hist = Dirty
    /\ iter = NoIter
    /\ sym = NoSym
    /\ owner = NoOwner
    /\ ctx = NoCtx
    /\ env = NoEnv
    /\ tool = NoTools
    /\ maps = NoMaps
    /\ lyr = NoLayer

NextIdentify ==
    \/ Ready /\ \E scene \in Scenes, options \in Options : Identify(scene, options)
    \/ Return

SpecIdentify == InitIdentify /\ [][NextIdentify]_vars

(***************************************************************************)
(* forEach(fn), one callback at a time.  Between two callbacks the program *)
(* is inside fn, where it may call any operation of the layer.             *)
(***************************************************************************)
\* forEach(fn) is called: the list is copied.  members records, for the
\* properties, the sequence at the time of the call.
ForEachBegin ==
    /\ Ready
    /\ iter.kind = "none"
    /\ iter' = [kind |-> "forEach", members |-> geoList, copyOnWrite |-> geoList,
                i |-> 1, visited |-> <<>>]
    /\ UNCHANGED <<geoList, geoMap, gId, gZ, gIid, gLayer, uid, hasMap, op, last, hist, sym, owner, ctx, env, tool, maps, lyr>>

\* The previous callback has returned and fn is called with entry i of the
\* copy.
ForEachCall ==
    /\ Ready
    /\ iter.kind = "forEach"
    /\ iter.i <= Len(iter.copyOnWrite)
    /\ iter' = [iter EXCEPT !.i = iter.i + 1,
                            !.visited = Append(iter.visited, iter.copyOnWrite[iter.i])]
    /\ UNCHANGED <<geoList, geoMap, gId, gZ, gIid, gLayer, uid, hasMap, op, last, hist, sym, owner, ctx, env, tool, maps, lyr>>

\* After the last entry of the copy forEach returns; the notes of the call
\* are the invocations of fn.
ForEachEnd ==
    /\ Ready
    /\ iter.kind = "forEach"
    /\ iter.i > Len(iter.copyOnWrite)
    /\ last' = Call("forEach", <<>>, "none",
                    [k \in 1..Len(iter.visited) |-> Note("fn", <<iter.visited[k]>>)])
    /\ iter' = NoIter
    /\ UNCHANGED <<geoList, geoMap, gId, gZ, gIid, gLayer, uid, hasMap, op, hist, sym, owner, ctx, env, tool, maps, lyr>>

\* The program iterates, and adds, removes, restacks and clears, inside the
\* callback or outside it.
NextForEach ==
    \/ ForEachBegin
    \/ ForEachCall
    \/ ForEachEnd
    \/ \E geo \in Geoms : AddGeometry(<<geo>>, "false", NoFit.shapes)
    \/ AddFinish
    \/ \E geo \in Geoms : RemoveGeometry(<<geo>>)
    \/ Clear
    \/ \E geo \in Restacked, z \in ZValues : SetZIndex(geo, z)
    \/ Return

SpecForEach == Init /\ [][NextForEach]_vars

(***************************************************************************)
(* _onGeometryEvent(param): the events of a member geometry as the layer   *)
(* receives them.  An event is its type, its target and, for idchange and  *)
(* zindexchange, the old and the new value.                                *)
(***************************************************************************)
\* The events that are only forwarded, and the method of the renderer each
\* is forwarded to.
Forwarded ==
    {"positionchange", "shapechange", "symbolchange", "show", "hide", "propertieschange"}

RendererCall(type) ==
    CASE type = "positionchange" -> "onGeometryPositionChange"
      [] type = "shapechange" -> "onGeometryShapeChange"
      [] type = "symbolchange" -> "onGeometrySymbolChange"
      [] type = "show" -> "onGeometryShow"
      [] type = "hide" -> "onGeometryHide"
      [] type = "propertieschange" -> "onGeometryPropertiesChange"

Event(type, target, old, new) ==
    [type |-> type, target |-> target, old |-> old, new |-> new]

\* _onGeometryEvent(param) on a layer of sequence list and id map map: the
\* sequences the sort may leave, the map, whether it threw and the calls of
\* the renderer.
OnGeometryEvent(list, map, z, iid, param) ==
    LET same == [lists |-> {list}, map |-> map, thrown |-> "none", notes |-> <<>>]
        told == IF hasMap /\ param.type \in Forwarded
                THEN <<Note(RendererCall(param.type), <<param.target>>)>>
                ELSE <<>>
    IN
    IF param.target = NoGeo THEN same
    ELSE IF param.type = "idchange"
    THEN LET r == OnGeometryIdChange(map, param.old, param.new, param.target)
         IN  [same EXCEPT !.map = r.map, !.thrown = r.thrown]
    ELSE IF param.type = "zindexchange"
    THEN IF param.old # param.new
         THEN [same EXCEPT !.lists = SortGeometries(list, z, iid),
                           !.notes = IF hasMap
                                     THEN <<Note("onGeometryZIndexChange", <<param.target>>)>>
                                     ELSE <<>>]
         ELSE same
    ELSE IF param.type \in Forwarded
    THEN [same EXCEPT !.notes = told]
    ELSE same

\* A member fires an event that the layer only forwards, or
\* _onGeometryEvent is called with an event that has no target.
GeometryEvent(type, target) ==
    /\ Ready
    /\ IF target = NoGeo THEN TRUE ELSE gLayer[target] = "this"
    /\ LET r == OnGeometryEvent(geoList, geoMap, gZ, gIid, Event(type, target, NoId, NoId))
       IN  /\ geoList' \in r.lists
           /\ geoMap' = r.map
           /\ last' = Call("event", <<type, target>>, r.thrown, r.notes)
    /\ hist' = Dirty
    /\ UNCHANGED <<gId, gZ, gIid, gLayer, uid, hasMap, op, iter, sym, owner, ctx, env, tool, maps, lyr>>

\* A layer with or without a map.
InitReactions ==
    /\ geoList = <<>>
    /\ geoMap = EmptyMap
    /\ gId = [g \in Geoms |-> IF g = "g3" THEN NoId ELSE "a"]
    /\ gZ = [g \in Geoms |-> 0]
    /\ gIid = [g \in Geoms |-> 0]
    /\ gLayer = [g \in Geoms |-> "none"]
    /\ uid = 0
    /\ hasMap \in BOOLEAN
    /\ op = Idle
    /\ last = NoCall
    /\ hist = Dirty
    /\ iter = NoIter
    /\ sym = NoSym
    /\ owner = NoOwner
    /\ ctx = NoCtx
    /\ env = NoEnv
    /\ tool = NoTools
    /\ maps = NoMaps
    /\ lyr = NoLayer

NextReactions ==
    \/ \E geo \in Geoms : AddGeometry(<<geo>>, "false", NoFit.shapes)
    \/ AddFinish
    \/ \E geo \in Renamed, id \in Ids \cup {NoId} : SetId(geo, id)
    \/ \E geo \in Restacked, z \in ZValues : SetZIndex(geo, z)
    \/ Ready /\ \E type \in Forwarded, target \in Geoms \cup {NoGeo} : GeometryEvent(type, target)
    \/ Return

SpecReactions == InitReactions /\ [][NextReactions]_vars

(***************************************************************************)
(* TextMarkerSymbolizer (src/unnamed/part_001): translate().  A symbol is  *)
(* a function from the text properties to values; values are written as    *)
(* strings, "absent" for a property the symbol does not have (undefined)   *)
(* and "null" for null.                                                    *)
(***************************************************************************)
Absent == "absent"
NilValue == "null"

TextProps ==
    {"textName", "textFaceName", "textWeight", "textStyle", "textSize", "textFont",
     "textFill", "textOpacity", "textHaloFill", "textHaloRadius", "textHaloOpacity",
     "textWrapWidth", "textWrapBefore", "textWrapCharacter", "textLineSpacing",
     "textDx", "textDy", "textHorizontalAlignment", "textVerticalAlignment", "textAlign"}

\* The second argument of each getValueOrDefault call of translate().
TextDefault(prop) ==
    CASE prop = "textFaceName" -> "monospace"
      [] prop = "textWeight" -> "normal"
      [] prop = "textStyle" -> "normal"
      [] prop = "textSize" -> "10"
      [] prop = "textFont" -> NilValue
      [] prop = "textFill" -> "#000"
      [] prop = "textOpacity" -> "1"
      [] prop = "textHaloFill" -> "#ffffff"
      [] prop = "textHaloRadius" -> "0"
      [] prop = "textHaloOpacity" -> "1"
      [] prop = "textWrapWidth" -> NilValue
      [] prop = "textWrapBefore" -> "false"
      [] prop = "textWrapCharacter" -> "\\n"
      [] prop = "textLineSpacing" -> "0"
      [] prop = "textDx" -> "0"
      [] prop = "textDy" -> "0"
      [] prop = "textHorizontalAlignment" -> "middle"
      [] prop = "textVerticalAlignment" -> "middle"
      [] prop = "textAlign" -> "center"

\* getValueOrDefault(v, d) of core/util: d when v is undefined or null.
GetValueOrDefault(v, d) == IF v \in {Absent, NilValue} THEN d ELSE v

\* A translate() that reads textDx where it should read textDy.
TranslateTextDyFromDx(s) ==
    [prop \in TextProps |->
        IF prop = "textName" THEN s[prop]
        ELSE IF prop = "textDy" THEN GetValueOrDefault(s["textDx"], TextDefault(prop))
        ELSE GetValueOrDefault(s[prop], TextDefault(prop))]

\* translate(): a new object, textName as it is and every other property
\* through getValueOrDefault.
TranslateText(s) ==
    [prop \in TextProps |->
        IF prop = "textName" THEN s[prop]
        ELSE GetValueOrDefault(s[prop], TextDefault(prop))]

\* The symbols the symbolizer is built with: a textName, and for each of
\* six properties no value, null or a value (0 among them).
SuppliedValue(prop) ==
    CASE prop = "textSize" -> "20"
      [] prop = "textFill" -> "#f00"
      [] prop = "textOpacity" -> "0"
      [] prop = "textHaloRadius" -> "2"
      [] prop = "textDx" -> "5"
      [] prop = "textDy" -> "-3"

VariedProps == {"textSize", "textFill", "textOpacity", "textHaloRadius", "textDx", "textDy"}

RawSymbol(choice) ==
    [prop \in TextProps |->
         IF prop = "textName" THEN "Hi"
         ELSE IF prop \in VariedProps
         THEN (IF choice[prop] = "value" THEN SuppliedValue(prop)
               ELSE IF choice[prop] = "null" THEN NilValue ELSE Absent)
         ELSE Absent]

InitSymbol ==
    /\ geoList = <<>>
    /\ geoMap = EmptyMap
    /\ gId = [g \in Geoms |-> NoId]
    /\ gZ = [g \in Geoms |-> 0]
    /\ gIid = [g \in Geoms |-> 0]
    /\ gLayer = [g \in Geoms |-> "none"]
    /\ uid = 0
    /\ hasMap = TRUE
    /\ op = Idle
    /\ last = NoCall
    /\ hist = Dirty
    /\ iter = NoIter
    /\ \E choice \in [VariedProps -> {"absent", "null", "value"}] :
          sym = [symbol |-> RawSymbol(choice), style |-> <<>>]
    /\ owner = NoOwner
    /\ ctx = NoCtx
    /\ env = NoEnv
    /\ tool = NoTools
    /\ maps = NoMaps
    /\ lyr = NoLayer

\* this.translate() of the symbolizer's symbol.
Translate ==
    /\ Ready
    /\ sym.symbol # <<>>
    /\ sym' = [sym EXCEPT !.style = TranslateText(sym.symbol)]
    /\ last' = Call("translate", <<sym.symbol>>, "none", <<>>)
    /\ UNCHANGED <<geoList, geoMap, gId, gZ, gIid, gLayer, uid, hasMap, op, hist, iter, owner, ctx, env, tool, maps, lyr>>

NextSymbol ==
    \/ Translate
    \/ Return

SpecSymbol == InitSymbol /\ [][NextSymbol]_vars

(***************************************************************************)
(* TextMarkerSymbolizer (src/unnamed/part_001): the constructor, _descText *)
(* with the text cache kept on the geometry, and symbolize.  The helpers   *)
(* it imports (hasFunctionDefinition, replaceVariable, splitTextToRow,     *)
(* Canvas) and the methods it inherits (_defineStyle, _prepareContext,     *)
(* _getRenderContainerPoints, _getRotationAt, _rotate) are not among the   *)
(* source files and are modelled from the specification.                   *)
(***************************************************************************)
\* The store is not part of what a symbolizer does.
StoreAtRest ==
    /\ geoList = <<>>
    /\ geoMap = EmptyMap
    /\ gId = [g \in Geoms |-> NoId]
    /\ gZ = [g \in Geoms |-> 0]
    /\ gIid = [g \in Geoms |-> 0]
    /\ gLayer = [g \in Geoms |-> "none"]
    /\ uid = 0
    /\ hasMap = TRUE
    /\ op = Idle
    /\ hist = Dirty
    /\ iter = NoIter
    /\ tool = NoTools
    /\ maps = NoMaps
    /\ lyr = NoLayer

StoreUntouched ==
    UNCHANGED <<geoList, geoMap, gId, gZ, gIid, gLayer, uid, hasMap, op, hist, iter,
                tool, maps, lyr>>

\* A function-type value of a symbol property (a computed expression).
FnValue == "function"

\* hasFunctionDefinition(symbol): some property is a computed expression.
HasFunctionDefinition(symbol) ==
    \E prop \in DOMAIN symbol : symbol[prop] = FnValue

\* _defineStyle(style): the style the symbolizer reads.
DefineStyle(style) == style

\* replaceVariable(str, properties): {name} is replaced by the geometry's
\* property of that name.
ReplaceVariable(str, properties) ==
    IF str = "{name}" THEN properties ELSE str

\* splitTextToRow(textContent, style): the layout of the content in rows,
\* given by what it was computed from.
SplitTextToRow(textContent, style) ==
    [content |-> textContent, textSize |-> style["textSize"]]

\* undefined as a cache key, null as a layout.
NoKey == <<>>
NoDesc == [content |-> NilValue, textSize |-> NilValue]

\* The properties of a style in the order translate() sets them.
TextPropOrder ==
    <<"textName", "textFaceName", "textWeight", "textStyle", "textSize", "textFont",
      "textFill", "textOpacity", "textHaloFill", "textHaloRadius", "textHaloOpacity",
      "textWrapWidth", "textWrapBefore", "textWrapCharacter", "textLineSpacing",
      "textDx", "textDy", "textHorizontalAlignment", "textVerticalAlignment",
      "textAlign">>

\* genCacheKey(textContent, style): the content and then 'p=value' of every
\* own property of the style named text..., joined; here the parts.
GenCacheKey(textContent, style) ==
    <<textContent>> \o [k \in 1..Len(TextPropOrder) |->
                          <<TextPropOrder[k], style[TextPropOrder[k]]>>]

\* _loadFromCache(): the entry of geometry[CACHE_KEY] under _cacheKey.
LoadFromCache(cache, cacheKey) ==
    IF \E e \in cache : e.key = cacheKey
    THEN (CHOOSE e \in cache : e.key = cacheKey).desc
    ELSE NoDesc

\* A _storeToCache that replaces the geometry's cache by one of a single entry.
StoreToCacheAlone(cache, cacheKey, textDesc, isNode) ==
    IF isNode THEN cache
    ELSE {[key |-> cacheKey, desc |-> textDesc]}

\* _storeToCache(textDesc): nothing under Node, otherwise the entry under
\* _cacheKey is set.
StoreToCache(cache, cacheKey, textDesc, isNode) ==
    IF isNode THEN cache
    ELSE {e \in cache : e.key # cacheKey} \cup {[key |-> cacheKey, desc |-> textDesc]}

\* A _descText that goes to the cache whether or not the symbol is dynamic.
DescTextAlwaysCached(dynamic, cacheKey, style, cache, textContent, isNode) ==
    LET loaded == LoadFromCache(cache, cacheKey)
        computed == SplitTextToRow(textContent, style)
    IN  IF loaded # NoDesc
        THEN [textDesc |-> loaded, cache |-> cache,
              notes |-> <<Note("loadFromCache", <<cacheKey>>)>>]
        ELSE [textDesc |-> computed,
              cache |-> StoreToCache(cache, cacheKey, computed, isNode),
              notes |-> <<Note("loadFromCache", <<cacheKey>>),
                          Note("splitTextToRow", <<textContent>>),
                          Note("storeToCache", <<cacheKey>>)>>]

\* _descText(textContent): the layout, the cache afterwards and what was
\* called on the way.
DescText(dynamic, cacheKey, style, cache, textContent, isNode) ==
    LET loaded == LoadFromCache(cache, cacheKey)
        computed == SplitTextToRow(textContent, style)
    IN  IF dynamic
        THEN [textDesc |-> computed, cache |-> cache,
              notes |-> <<Note("splitTextToRow", <<textContent>>)>>]
        ELSE IF loaded # NoDesc
        THEN [textDesc |-> loaded, cache |-> cache,
              notes |-> <<Note("loadFromCache", <<cacheKey>>)>>]
        ELSE [textDesc |-> computed,
              cache |-> StoreToCache(cache, cacheKey, computed, isNode),
              notes |-> <<Note("loadFromCache", <<cacheKey>>),
                          Note("splitTextToRow", <<textContent>>),
                          Note("storeToCache", <<cacheKey>>)>>]

\* The text symbols the program builds symbolizers with.
TextSymbol(name, size, opacity, fill) ==
    [prop \in TextProps |->
        CASE prop = "textName" -> name
          [] prop = "textSize" -> size
          [] prop = "textOpacity" -> opacity
          [] prop = "textFill" -> fill
          [] OTHER -> Absent]

TextSymbols ==
    {TextSymbol(name, look[1], look[2], fill) :
        name \in {"Hi", "{name}"},
        look \in {<<Absent, Absent>>, <<"20", Absent>>, <<"0", Absent>>, <<Absent, "0">>},
        fill \in {Absent, FnValue}}

\* The values of the geometry's property 'name'.
PropertyValues == {"A", "B"}

\* A rotation, as _getRotationAt(i) gives it for a point.
Rotated == "rotated"

\* _getRenderContainerPoints(), each point given by its rotation: no point,
\* one point, or two points of which the first is rotated.
PointLists == {<<>>, <<NilValue>>, <<Rotated, NilValue>>}

\* The text cache of the geometry holds at most MaxCached layouts.
MaxCached == 2

\* globalAlpha of the surface, in hundredths.
OpaqueAlpha == 100

\* No text symbolizer has been built yet.  draws is the number of times the
\* symbolizer has drawn its text (two standing for two or more).
NoText ==
    [built |-> FALSE, symbol |-> <<>>, style |-> <<>>, dynamic |-> FALSE,
     cacheKey |-> NoKey, textDesc |-> NoDesc, draws |-> 0]

InitText ==
    /\ StoreAtRest
    /\ last = NoCall
    /\ sym = NoText
    /\ \E properties \in PropertyValues, points \in PointLists :
          owner = [properties |-> properties, points |-> points, cache |-> {}]
    /\ ctx = [globalAlpha |-> OpaqueAlpha, font |-> "none"]
    /\ \E isNode \in BOOLEAN : env = [IS_NODE |-> isNode]

\* new TextMarkerSymbolizer(symbol, geometry, painter) for the geometry; a
\* symbolizer built earlier for it is dropped.
TextConstruct(symbol) ==
    /\ Ready
    /\ LET dynamic == HasFunctionDefinition(symbol)
           style == DefineStyle(TranslateText(symbol))
           textContent == ReplaceVariable(style["textName"], owner.properties)
           cacheKey == IF dynamic THEN NoKey ELSE GenCacheKey(textContent, style)
           d == DescText(dynamic, cacheKey, style, owner.cache, textContent, env.IS_NODE)
       IN  /\ Cardinality(d.cache) <= MaxCached
           /\ sym' = [built |-> TRUE, symbol |-> symbol, style |-> style,
                      dynamic |-> dynamic, cacheKey |-> cacheKey,
                      textDesc |-> d.textDesc, draws |-> 0]
           /\ owner' = [owner EXCEPT !.cache = d.cache]
           /\ last' = Call("construct", <<symbol>>, "none", d.notes)
    /\ UNCHANGED <<ctx, env>>
    /\ StoreUntouched

\* _rotate(ctx, p, rotation) saves the context and turns it when there is a
\* rotation; what is called on the surface for one point.
PointNotes(rotation, primitive) ==
    IF rotation # NilValue
    THEN <<Note("save", <<>>), primitive, Note("restore", <<>>)>>
    ELSE <<primitive>>

\* The loop over the points, from point i on.
RECURSIVE LoopNotes(_, _, _)
LoopNotes(points, i, primitive) ==
    IF i > Len(points) THEN <<>>
    ELSE PointNotes(points[i], primitive) \o LoopNotes(points, i + 1, primitive)

\* symbolize(ctx, resources) of the text symbolizer.
TextSymbolize ==
    /\ Ready
    /\ sym.built
    /\ LET style == sym.style
           textContent == ReplaceVariable(style["textName"], owner.properties)
           d == DescText(sym.dynamic, sym.cacheKey, style, owner.cache, textContent,
                         env.IS_NODE)
       IN  IF style["textSize"] = "0" \/ style["textOpacity"] = "0"
           THEN /\ last' = Call("symbolize", <<>>, "none", <<>>)
                /\ UNCHANGED <<sym, owner, ctx>>
           ELSE IF owner.points = <<>>
           THEN /\ last' = Call("symbolize", <<>>, "none", <<>>)
                /\ UNCHANGED <<sym, owner, ctx>>
           ELSE /\ Cardinality(d.cache) <= MaxCached
                /\ sym' = [sym EXCEPT !.textDesc = d.textDesc,
                                      !.draws = IF sym.draws < 2 THEN sym.draws + 1 ELSE 2]
                /\ owner' = [owner EXCEPT !.cache = d.cache]
                /\ ctx' = [ctx EXCEPT !.font = style["textSize"]]
                /\ last' = Call("symbolize", <<>>, "none",
                                d.notes
                                  \o <<Note("prepareCanvas", <<>>),
                                       Note("prepareCanvasFont", <<style["textSize"]>>)>>
                                  \o LoopNotes(owner.points, 1,
                                               Note("text", <<textContent, d.textDesc>>)))
    /\ UNCHANGED env
    /\ StoreUntouched

\* geometry.setProperties(...): the geometry's property 'name' is changed.
SetProperties(properties) ==
    /\ Ready
    /\ owner.properties # properties
    /\ owner' = [owner EXCEPT !.properties = properties]
    /\ UNCHANGED <<sym, ctx, env, last>>
    /\ StoreUntouched

NextText ==
    \/ \E symbol \in TextSymbols : TextConstruct(symbol)
    \/ TextSymbolize
    \/ \E properties \in PropertyValues : SetProperties(properties)
    \/ Return

SpecText == InitText /\ [][NextText]_vars

(***************************************************************************)
(* ImageMarkerSymbolizer                                                   *)
(* (src/src/renderer/geometry/symbolizers/ImageMarkerSymbolizer.js):       *)
(* translate and symbolize, with the resource cache the symbolizer is      *)
(* given and the drawing surface it draws on.  Numbers are written as      *)
(* strings, as the values of a symbol are.                                 *)
(***************************************************************************)
ImageProps ==
    {"markerFile", "markerOpacity", "markerWidth", "markerHeight", "markerDx", "markerDy"}

\* translate() of the image marker.
TranslateImage(s) ==
    [prop \in ImageProps |->
        CASE prop = "markerFile" -> s[prop]
          [] prop = "markerOpacity" -> GetValueOrDefault(s[prop], "1")
          [] prop = "markerWidth" -> GetValueOrDefault(s[prop], NilValue)
          [] prop = "markerHeight" -> GetValueOrDefault(s[prop], NilValue)
          [] prop = "markerDx" -> GetValueOrDefault(s[prop], "0")
          [] prop = "markerDy" -> GetValueOrDefault(s[prop], "0")]

\* isNumber(v), for the values a style holds.
IsNumber(v) == v \notin {Absent, NilValue}

\* An opacity in hundredths.
Hundredths(v) ==
    CASE v = "1" -> 100
      [] v = "0.5" -> 50
      [] v = "0" -> 0

\* The image symbols the program builds symbolizers with.
ImageSymbol(width, height, opacity, type) ==
    [prop \in ImageProps \cup {"markerType"} |->
        CASE prop = "markerFile" -> "m.png"
          [] prop = "markerWidth" -> width
          [] prop = "markerHeight" -> height
          [] prop = "markerOpacity" -> opacity
          [] prop = "markerType" -> type
          [] OTHER -> Absent]

ImageSymbols ==
    {ImageSymbol(width, height, opacity, type) :
        width \in {Absent, "20", "0"}, height \in {Absent, "20"},
        opacity \in {Absent, "0.5", "0"}, type \in {Absent, "path"}}

\* The natural sizes of the images that get loaded.
NaturalSizes == {[width |-> "32", height |-> "32"], [width |-> "0", height |-> "0"]}

\* No image (null).
NoImage == [width |-> NilValue, height |-> NilValue]

\* resources.getImage(url): the image registered under the key, or null.
GetImage(resources, url) ==
    IF \E r \in resources : r.url = url
    THEN (CHOOSE r \in resources : r.url = url).image
    ELSE NoImage

\* resources.isResourceLoaded(url)
IsResourceLoaded(resources, url) == \E r \in resources : r.url = url

\* resources.addResource(url, img)
AddResource(resources, url, img) ==
    {r \in resources : r.url # url} \cup {[url |-> url, image |-> img]}

\* The key an image is asked for with.
ImageURL(style) == <<style["markerFile"], style["markerWidth"], style["markerHeight"]>>

\* new ImageMarkerSymbolizer(symbol, geometry, painter)
ImageConstruct(symbol) ==
    [built |-> TRUE, symbol |-> symbol, style |-> DefineStyle(TranslateImage(symbol))]

\* The values globalAlpha has when symbolize is called.
Alphas == {100, 50}

InitImage ==
    /\ StoreAtRest
    /\ last = NoCall
    /\ \E symbol \in ImageSymbols : sym = ImageConstruct(symbol)
    /\ \E points \in PointLists, spriting \in BOOLEAN :
          owner = [points |-> points, spriting |-> spriting]
    /\ \E alpha \in Alphas : ctx = [globalAlpha |-> alpha]
    /\ \E phantomjs \in BOOLEAN : env = [phantomjs |-> phantomjs, resources |-> {}]

\* The resource loader has loaded the marker's file and registers the image
\* under the key the symbolizer asks for.
LoadImage(img) ==
    /\ Ready
    /\ sym.built
    /\ ~IsResourceLoaded(env.resources, ImageURL(sym.style))
    /\ env' = [env EXCEPT !.resources = AddResource(@, ImageURL(sym.style), img)]
    /\ UNCHANGED <<sym, owner, ctx, last>>
    /\ StoreUntouched

\* _getImage(resources): null without a resource cache.
GetImageOf(given, resources, style) ==
    IF ~given THEN NoImage ELSE GetImage(resources, ImageURL(style))

\* A symbolize that returns without a word when it finds no image.
NoImageFoundSilent(phantomjs) == <<>>

\* No image was found: console.warn, unless under PhantomJS.
NoImageFound(phantomjs) ==
    IF ~phantomjs THEN <<Note("warn", <<"no img found">>)>> ELSE <<>>

\* The width and the height the marker is drawn with: the image's when the
\* style has not both as numbers.
SizeToDraw(style, img) ==
    IF ~IsNumber(style["markerWidth"]) \/ ~IsNumber(style["markerHeight"])
    THEN [width |-> img.width, height |-> img.height]
    ELSE [width |-> style["markerWidth"], height |-> style["markerHeight"]]

\* Whether globalAlpha is scaled by the marker's opacity for the draw.
ScalesAlpha(symbol, style) ==
    /\ symbol["markerType"] # "path"
    /\ IsNumber(style["markerOpacity"])
    /\ Hundredths(style["markerOpacity"]) < 100

\* A symbolize that leaves globalAlpha as it scaled it.
AlphaAfterNotRestored(alpha, scaled, during) == during

\* globalAlpha after the loop: set back to the value saved when it was scaled.
AlphaAfter(alpha, scaled, during) == IF scaled THEN alpha ELSE during

\* symbolize(ctx, resources) of the image marker; given: whether a resource
\* cache is passed.
ImageSymbolize(given) ==
    /\ Ready
    /\ sym.built
    /\ LET style == sym.style
           img == GetImageOf(given, env.resources, style)
           size == SizeToDraw(style, img)
           unset == ~IsNumber(style["markerWidth"]) \/ ~IsNumber(style["markerHeight"])
           style1 == IF unset
                     THEN [style EXCEPT !["markerWidth"] = size.width,
                                        !["markerHeight"] = size.height]
                     ELSE style
           imgURL == ImageURL(style1)
           register == unset /\ ~IsResourceLoaded(env.resources, imgURL)
           scaled == ScalesAlpha(sym.symbol, style1)
           during == IF scaled
                     THEN (ctx.globalAlpha * Hundredths(style1["markerOpacity"])) \div 100
                     ELSE ctx.globalAlpha
       IN  IF \/ style["markerWidth"] = "0"
              \/ style["markerHeight"] = "0"
              \/ style["markerOpacity"] = "0"
           THEN /\ last' = Call("symbolize", <<given>>, "none", <<>>)
                /\ UNCHANGED <<sym, ctx, env>>
           ELSE IF owner.points = <<>>
           THEN /\ last' = Call("symbolize", <<given>>, "none", <<>>)
                /\ UNCHANGED <<sym, ctx, env>>
           ELSE IF img = NoImage
           THEN /\ last' = Call("symbolize", <<given>>, "none", NoImageFound(env.phantomjs))
                /\ UNCHANGED <<sym, ctx, env>>
           ELSE /\ sym' = [sym EXCEPT !.style = style1]
                /\ env' = [env EXCEPT !.resources =
                              IF register THEN AddResource(@, imgURL, img) ELSE @]
                /\ ctx' = [ctx EXCEPT !.globalAlpha = AlphaAfter(@, scaled, during)]
                /\ last' = Call("symbolize", <<given>>, "none",
                                (IF unset THEN <<Note("isResourceLoaded", imgURL)>> ELSE <<>>)
                                  \o (IF register THEN <<Note("addResource", imgURL)>> ELSE <<>>)
                                  \o (IF unset /\ ~owner.spriting
                                      THEN <<Note("removeCache", <<>>)>> ELSE <<>>)
                                  \o LoopNotes(owner.points, 1,
                                               Note("image", <<size.width, size.height, during>>)))
    /\ UNCHANGED owner
    /\ StoreUntouched

NextImage ==
    \/ \E img \in NaturalSizes : LoadImage(img)
    \/ \E given \in BOOLEAN : ImageSymbolize(given)
    \/ Return

SpecImage == InitImage /\ [][NextImage]_vars

(***************************************************************************)
(* addGeometry with fitView, on a layer that is on a map or not.           *)
(***************************************************************************)
\* The values given as fitView: true, false and a truthy value that is not
\* true.
FitViews == {"true", "false", "1"}

\* Which of getCenter() and getExtent() of each geometry are not null.
ShapeChoices ==
    {[g \in Geoms |-> IF g = "g1" THEN s1 ELSE IF g = "g2" THEN s2 ELSE s3] :
        s1 \in {"both", "center"}, s2 \in {"both", "extent"}, s3 \in {"both", "none"}}

InitFit ==
    /\ geoList = <<>>
    /\ geoMap = EmptyMap
    /\ gId = [g \in Geoms |-> IF g = "g1" THEN "a" ELSE IF g = "g2" THEN "b" ELSE NoId]
    /\ gZ = [g \in Geoms |-> 0]
    /\ gIid = [g \in Geoms |-> 0]
    /\ gLayer = [g \in Geoms |-> "none"]
    /\ uid = 0
    /\ hasMap \in BOOLEAN
    /\ op = Idle
    /\ last = NoCall
    /\ hist = Dirty
    /\ iter = NoIter
    /\ sym = NoSym
    /\ owner = NoOwner
    /\ ctx = NoCtx
    /\ env = NoEnv
    /\ tool = NoTools
    /\ maps = NoMaps
    /\ lyr = NoLayer

NextFit ==
    \/ /\ Ready
       /\ \E batch \in Arrays(Geoms \cup {NoGeo}), fitView \in FitViews,
             shapes \in ShapeChoices : AddGeometry(batch, fitView, shapes)
    \/ AddNext
    \/ AddFinish
    \/ Clear
    \/ Return

SpecFit == InitFit /\ [][NextFit]_vars

(***************************************************************************)
(* clear(), one member at a time: Geometry.remove() fires the geometry's   *)
(* 'remove' event, in whose listeners the program may call the layer       *)
(* again.  The call in progress is op, of kind "clear", with the copy of   *)
(* the list that forEach walks as its batch; _clearing is set as long as   *)
(* it lasts.                                                               *)
(***************************************************************************)
\* The end of clear(): the map and the list are replaced by empty ones, the
\* renderer is told of the list replaced, and 'clear' fires.
ClearEnd(notes) ==
    /\ geoMap' = EmptyMap
    /\ geoList' = <<>>
    /\ op' = Idle
    /\ last' = Call("clear", <<>>, "none",
                    notes
                      \o (IF hasMap THEN <<Note("onGeometryRemove", geoList)>> ELSE <<>>)
                      \o <<Note("clear", <<>>)>>)

\* The callback of clear()'s forEach for entry i of the copy.
ClearEntry(copyOnWrite, i, notes) ==
    LET st == Geometry_remove(Store(geoList, geoMap, gLayer, gIid, notes),
                              copyOnWrite[i], TRUE)
    IN  /\ gLayer' = st.layer
        /\ gIid' = st.iid
        /\ op' = [Idle EXCEPT !.kind = "clear", !.batch = copyOnWrite, !.i = i + 1,
                              !.notes = st.notes]
        /\ last' = NoCall
        /\ UNCHANGED <<geoList, geoMap>>

\* clear() is called.
ClearBegin ==
    /\ Ready
    /\ IF geoList = <<>>
       THEN ClearEnd(<<>>) /\ UNCHANGED <<gLayer, gIid>>
       ELSE ClearEntry(geoList, 1, <<>>)
    /\ hist' = Dirty
    /\ UNCHANGED <<gId, gZ, uid, hasMap, iter, sym, owner, ctx, env, tool, maps, lyr>>

\* The listeners of a 'remove' event return and forEach goes on.
ClearNext ==
    /\ op.kind = "clear"
    /\ op.i <= Len(op.batch)
    /\ ClearEntry(op.batch, op.i, op.notes)
    /\ UNCHANGED <<gId, gZ, uid, hasMap, hist, iter, sym, owner, ctx, env, tool, maps, lyr>>

\* forEach has returned.
ClearFinish ==
    /\ op.kind = "clear"
    /\ op.i > Len(op.batch)
    /\ ClearEnd(op.notes)
    /\ UNCHANGED <<gId, gZ, gIid, gLayer, uid, hasMap, hist, iter, sym, owner, ctx, env, tool, maps, lyr>>

\* A listener of a 'remove' event calls addGeometry([geo]) of the layer, for
\* a geometry that has no layer and an id the map does not hold (so that
\* the call returns).
AddWithin(geo) ==
    /\ op.kind = "clear"
    /\ uid + 1 <= MaxUID
    /\ gLayer[geo] = "none"
    /\ ~IsDuplicateId(geoMap, gId[geo])
    /\ geoMap' = IF gId[geo] # NoId THEN [geoMap EXCEPT ![gId[geo]] = geo] ELSE geoMap
    /\ uid' = uid + 1
    /\ gIid' = [gIid EXCEPT ![geo] = uid + 1]
    /\ gLayer' = [gLayer EXCEPT ![geo] = "this"]
    /\ geoList' \in SortGeometries(Append(geoList, geo), gZ, gIid')
    /\ op' = [op EXCEPT !.notes = @ \o <<Note("add", <<geo>>)>>
                                    \o (IF hasMap THEN <<Note("onGeometryAdd", <<geo>>)>>
                                        ELSE <<>>)
                                    \o <<Note("addgeo", <<geo>>)>>]
    /\ UNCHANGED <<gId, gZ, hasMap, last, hist, iter, sym, owner, ctx, env, tool, maps, lyr>>

\* A listener of a 'remove' event calls removeGeometry([geo]) of the layer,
\* for a member.
RemoveWithin(geo) ==
    /\ op.kind = "clear"
    /\ gLayer[geo] = "this"
    /\ LET st == Geometry_remove(Store(geoList, geoMap, gLayer, gIid, op.notes), geo, TRUE)
       IN  /\ geoList' = st.list
           /\ geoMap' = st.map
           /\ gLayer' = st.layer
           /\ gIid' = st.iid
           /\ op' = [op EXCEPT !.notes = Append(st.notes, Note("removegeo", <<geo>>))]
    /\ UNCHANGED <<gId, gZ, uid, hasMap, last, hist, iter, sym, owner, ctx, env, tool, maps, lyr>>

InitClear ==
    /\ geoList = <<>>
    /\ geoMap = EmptyMap
    /\ gId = [g \in Geoms |-> IF g = "g1" THEN "a" ELSE IF g = "g2" THEN "b" ELSE NoId]
    /\ gZ \in [Geoms -> ZValues]
    /\ gIid = [g \in Geoms |-> 0]
    /\ gLayer = [g \in Geoms |-> "none"]
    /\ uid = 0
    /\ hasMap = TRUE
    /\ op = Idle
    /\ last = NoCall
    /\ hist = Dirty
    /\ iter = NoIter
    /\ sym = NoSym
    /\ owner = NoOwner
    /\ ctx = NoCtx
    /\ env = NoEnv
    /\ tool = NoTools
    /\ maps = NoMaps
    /\ lyr = NoLayer

NextClear ==
    \/ \E geo \in Geoms : AddGeometry(<<geo>>, "false", NoFit.shapes)
    \/ AddFinish
    \/ ClearBegin
    \/ ClearNext
    \/ ClearFinish
    \/ \E geo \in Geoms : AddWithin(geo)
    \/ \E geo \in Geoms : RemoveWithin(geo)
    \/ Return

SpecClear == InitClear /\ [][NextClear]_vars

(***************************************************************************)
(* MapTool                                                                 *)
(*                                                                         *)
(* Tools and maps.  A tool is a subclass instance: its name, its getEvents *)
(* and its optional hooks onAdd, onEnable and onDisable come with the      *)
(* subclass.  The map's on and off (Eventable) are not among the source    *)
(* files: on adds a registration of the tool's handlers, off drops every   *)
(* registration of them.                                                   *)
(***************************************************************************)
Tools == {"t1", "t2", "t3"}
Maps == {"m1", "m2"}
NoMap == "none"
NoToolSet == "none"

\* this.name of the tool's class: t1 and t2 are tools of one name.
ToolName(t) == IF t = "t3" THEN "Measure" ELSE "Draw"

\* The tools whose class defines the hooks onAdd, onEnable and onDisable.
Hooked == {"t1", "t3"}

\* What a call of a hook leaves in the notes.
Hook(t, name, notes) == IF t \in Hooked THEN Append(notes, Note(name, <<t>>)) ELSE notes

\* map.on(events, tool) and map.off(events, tool), on the count of the
\* registrations of the tool's handlers on the map.
On(count) == count + 1
Off(count) == 0

\* The tools, the maps and the notes a call works on.
ToolState(tl, mp, notes) == [tool |-> tl, maps |-> mp, notes |-> notes]

\* _switchEvents(to): getEvents() of every tool gives its event map.
SwitchEvents(st, t, to) ==
    LET m == st.tool[t].map IN
    [st EXCEPT !.maps[m].handlers[t] = IF to = "on" THEN On(@) ELSE Off(@)]

\* _fireEvent(eventName)
FireEvent(st, t, eventName) ==
    [st EXCEPT !.notes = Append(@, Note(eventName, <<t>>))]

\* isEnabled()
IsEnabled(tl, t) == IF ~tl[t].enabled THEN FALSE ELSE TRUE

\* getMap()
GetMap(tl, t) == tl[t].map

\* enable()
Enable(st, t) ==
    IF st.tool[t].map = NoMap \/ st.tool[t].enabled
    THEN st
    ELSE LET s1 == [st EXCEPT !.tool[t].enabled = TRUE]
             s2 == SwitchEvents(SwitchEvents(s1, t, "off"), t, "on")
             s3 == [s2 EXCEPT !.notes = Hook(t, "onEnable", @)]
         IN  FireEvent(s3, t, "enable")

DisableKeepsListeners(st, t) ==
    IF ~st.tool[t].enabled \/ st.tool[t].map = NoMap
    THEN st
    ELSE LET s1 == [st EXCEPT !.tool[t].enabled = FALSE]
             s3 == [s1 EXCEPT !.notes = Hook(t, "onDisable", @)]
         IN  FireEvent(s3, t, "disable")

\* disable()
Disable(st, t) ==
    IF ~st.tool[t].enabled \/ st.tool[t].map = NoMap
    THEN st
    ELSE LET s1 == [st EXCEPT !.tool[t].enabled = FALSE]
             s2 == SwitchEvents(s1, t, "off")
             s3 == [s2 EXCEPT !.notes = Hook(t, "onDisable", @)]
         IN  FireEvent(s3, t, "disable")

AddToAddFirst(st, t, map) ==
    IF map = NoMap
    THEN st
    ELSE LET key == ToolName(t)
             s1 == [st EXCEPT !.tool[t].map = map]
             s2 == IF s1.maps[map].tools[key] # NoToolSet
                   THEN Disable(s1, s1.maps[map].tools[key])
                   ELSE s1
             s3 == [s2 EXCEPT !.notes = Hook(t, "onAdd", @)]
             s4 == FireEvent(s3, t, "add")
             s5 == Enable(s4, t)
         IN  [s5 EXCEPT !.maps[map].tools[key] = t]

\* addTo(map)
AddTo(st, t, map) ==
    IF map = NoMap
    THEN st
    ELSE LET key == ToolName(t)
             s1 == [st EXCEPT !.tool[t].map = map]
             s2 == IF s1.maps[map].tools[key] # NoToolSet
                   THEN Disable(s1, s1.maps[map].tools[key])
                   ELSE s1
             s3 == [s2 EXCEPT !.notes = Hook(t, "onAdd", @)]
             s4 == Enable(s3, t)
             s5 == [s4 EXCEPT !.maps[map].tools[key] = t]
         IN  FireEvent(s5, t, "add")

\* Nothing but the tools and the maps is at work.
ToolsOnly ==
    /\ geoList = <<>>
    /\ geoMap = EmptyMap
    /\ gId = [g \in Geoms |-> NoId]
    /\ gZ = [g \in Geoms |-> 0]
    /\ gIid = [g \in Geoms |-> 0]
    /\ gLayer = [g \in Geoms |-> "none"]
    /\ uid = 0
    /\ hasMap = TRUE
    /\ op = Idle
    /\ hist = Dirty
    /\ iter = NoIter
    /\ sym = NoSym
    /\ owner = NoOwner
    /\ ctx = NoCtx
    /\ env = NoEnv
    /\ lyr = NoLayer

ToolsOnlyChange ==
    UNCHANGED <<geoList, geoMap, gId, gZ, gIid, gLayer, uid, hasMap, op, hist, iter,
                sym, owner, ctx, env, lyr>>

\* New tools, which have no map and are not enabled (_enabled is
\* undefined), and new maps.
InitTool ==
    /\ ToolsOnly
    /\ last = NoCall
    /\ tool = [t \in Tools |-> [map |-> NoMap, enabled |-> FALSE]]
    /\ maps = [m \in Maps |-> [tools |-> [n \in {ToolName(t) : t \in Tools} |-> NoToolSet],
                               handlers |-> [t \in Tools |-> 0]]]

\* tool.addTo(map), tool.enable() or tool.disable() is called.
ToolCall(call, t, args, st) ==
    /\ tool' = st.tool
    /\ maps' = st.maps
    /\ last' = Call(call, <<t>> \o args, "none", st.notes)
    /\ ToolsOnlyChange

ToolAddTo(t, map) ==
    /\ Ready
    /\ ToolCall("addTo", t, <<map>>, AddTo(ToolState(tool, maps, <<>>), t, map))

ToolEnable(t) ==
    /\ Ready
    /\ ToolCall("enable", t, <<>>, Enable(ToolState(tool, maps, <<>>), t))

ToolDisable(t) ==
    /\ Ready
    /\ ToolCall("disable", t, <<>>, Disable(ToolState(tool, maps, <<>>), t))

NextTool ==
    \/ \E t \in Tools, map \in Maps \cup {NoMap} : ToolAddTo(t, map)
    \/ \E t \in Tools : ToolEnable(t)
    \/ \E t \in Tools : ToolDisable(t)
    \/ Return

SpecTool == InitTool /\ [][NextTool]_vars

\* The program uses its tools with one map only.
NextToolOneMap ==
    \/ \E t \in Tools, map \in {"m1", NoMap} : ToolAddTo(t, map)
    \/ \E t \in Tools : ToolEnable(t)
    \/ \E t \in Tools : ToolDisable(t)
    \/ Return

SpecToolOneMap == InitTool /\ [][NextToolOneMap]_vars

(***************************************************************************)
(* Layer                                                                   *)
(*                                                                         *)
(* One layer, added to and removed from maps.  Map.addLayer and            *)
(* Map.removeLayer and the renderer classes are not among the source       *)
(* files: addLayer calls the layer's _bindMap and load, removeLayer its    *)
(* _doRemove, and a renderer fires the layer's 'layerload' when it has     *)
(* drawn.                                                                  *)
(***************************************************************************)
\* options.renderer of the layer: getRendererClass knows 'canvas' and 'dom'.
RendererOptions == {"canvas", "dom", "gl"}
GetRendererClass(renderer) == IF renderer \in {"canvas", "dom"} THEN renderer ELSE NilValue

\* No renderer.
NoRenderer == 0

\* _zIndex is undefined; a zIndex z is kept as <<z>>.
NoZIndex == <<>>

\* The layer makes at most MaxRenderers renderers.
MaxRenderers == 3

\* The types of the geometries given as masks; the marker has a vector symbol.
MaskTypes == {"Point", "Polygon", "LineString"}
NoMask == "none"

\* The emitters of the layer's class that define getEvents.
WithEvents == {"renderer"}

\* The layer, the notes of the call and what the call threw.
LayerState(l, notes) == [lyr |-> l, notes |-> notes, thrown |-> "none"]

\* A new layer: constructor(id, options).
NewLayer(renderer) ==
    [map |-> NoMap, renderer |-> NoRenderer, loaded |-> FALSE, mask |-> NoMask,
     zIndex |-> NoZIndex, options |-> renderer, made |-> 0]

\* isLoaded()
IsLoaded(l) == l.loaded

\* isCanvasRender()
IsCanvasRender(l) == l.renderer # NoRenderer /\ l.options = "canvas"

\* _switchEvents(to, emitter)
LayerSwitchEvents(st, to, emitter) ==
    IF emitter \in WithEvents
    THEN [st EXCEPT !.notes = Append(@, Note(to, <<emitter>>))]
    ELSE st

\* Layer.prototype.fire
LayerFire(st, eventType) ==
    LET s1 == IF eventType = "layerload" THEN [st EXCEPT !.lyr.loaded = TRUE] ELSE st
        s2 == IF s1.lyr.map # NoMap
              THEN [s1 EXCEPT !.notes = Append(@, Note("_onLayerEvent", <<eventType>>))]
              ELSE s1
    IN  [s2 EXCEPT !.notes = Append(@, Note(eventType, <<>>))]

\* setZIndex(zIndex)
LayerSetZIndex(st, zIndex) ==
    LET s1 == [st EXCEPT !.lyr.zIndex = <<zIndex>>]
        s2 == IF s1.lyr.map # NoMap
              THEN [s1 EXCEPT !.notes = Append(@, Note("_sortLayersByZIndex", <<>>))]
              ELSE s1
    IN  IF s2.lyr.renderer # NoRenderer
        THEN [s2 EXCEPT !.notes = Append(@, Note("renderer.setZIndex", <<zIndex>>))]
        ELSE s2

\* _bindMap(map, zIndex)
BindMap(st, map, zIndex) ==
    IF map = NoMap
    THEN st
    ELSE LET s1 == [st EXCEPT !.lyr.map = map]
             s2 == LayerSetZIndex(s1, zIndex)
             s3 == LayerSwitchEvents(s2, "on", "layer")
         IN  LayerFire(s3, "add")

\* _initRenderer()
InitRenderer(st) ==
    LET clazz == GetRendererClass(st.lyr.options) IN
    IF clazz = NilValue
    THEN [st EXCEPT !.thrown = "Invalid renderer"]
    ELSE LET s1 == [st EXCEPT !.lyr.renderer = st.lyr.made + 1,
                              !.lyr.made = st.lyr.made + 1]
             s2 == [s1 EXCEPT !.notes = Append(@, Note("renderer.setZIndex",
                                                       s1.lyr.zIndex))]
         IN  LayerSwitchEvents(s2, "on", "renderer")

\* load()
Load(st) ==
    IF st.lyr.map = NoMap
    THEN st
    ELSE LET s1 == InitRenderer(st) IN
         IF s1.thrown # "none"
         THEN s1
         ELSE IF s1.lyr.zIndex # NoZIndex
         THEN LET s2 == [s1 EXCEPT !.notes = Append(@, Note("renderer.setZIndex",
                                                            s1.lyr.zIndex))]
              IN  IF ~IsCanvasRender(s2.lyr)
                  THEN [s2 EXCEPT !.notes = Append(@, Note("renderer.render", <<>>))]
                  ELSE s2
         ELSE s1

DoRemoveKeepsLoaded(st) ==
    LET s2 == LayerSwitchEvents(st, "off", "layer")
        s3 == IF s2.lyr.renderer # NoRenderer
              THEN [LayerSwitchEvents(s2, "off", "renderer")
                      EXCEPT !.notes = Append(@, Note("renderer.remove", <<>>)),
                             !.lyr.renderer = NoRenderer]
              ELSE s2
    IN  [s3 EXCEPT !.lyr.mask = NoMask, !.lyr.map = NoMap]

\* _doRemove()
DoRemove(st) ==
    LET s1 == [st EXCEPT !.lyr.loaded = FALSE]
        s2 == LayerSwitchEvents(s1, "off", "layer")
        s3 == IF s2.lyr.renderer # NoRenderer
              THEN [LayerSwitchEvents(s2, "off", "renderer")
                      EXCEPT !.notes = Append(@, Note("renderer.remove", <<>>)),
                             !.lyr.renderer = NoRenderer]
              ELSE s2
    IN  [s3 EXCEPT !.lyr.mask = NoMask, !.lyr.map = NoMap]

\* Map.addLayer(layer), for a layer that is on no map: the layer is bound
\* with the zIndex of its place among the map's layers and loaded.
MapAddLayer(st, map, zIndex) ==
    LET s1 == BindMap(st, map, zIndex) IN Load(s1)

\* setMask(mask), of a mask of the given type.
SetMask(st, type) ==
    IF type \notin {"Point", "Polygon"}
    THEN [st EXCEPT !.thrown = "Mask for a layer must be a marker or a Polygon"]
    ELSE IF ~IsCanvasRender(st.lyr)
    THEN [st EXCEPT !.thrown = "Only canvas layers can setMask"]
    ELSE LET s1 == [st EXCEPT !.lyr.mask = type] IN
         IF s1.lyr.map = NoMap
         THEN s1
         ELSE [s1 EXCEPT !.notes = Append(@, Note("setToRedraw", <<>>))]

\* Nothing but the layer is at work.
LayerOnly ==
    /\ geoList = <<>>
    /\ geoMap = EmptyMap
    /\ gId = [g \in Geoms |-> NoId]
    /\ gZ = [g \in Geoms |-> 0]
    /\ gIid = [g \in Geoms |-> 0]
    /\ gLayer = [g \in Geoms |-> "none"]
    /\ uid = 0
    /\ hasMap = TRUE
    /\ op = Idle
    /\ hist = Dirty
    /\ iter = NoIter
    /\ sym = NoSym
    /\ owner = NoOwner
    /\ ctx = NoCtx
    /\ env = NoEnv
    /\ tool = NoTools
    /\ maps = NoMaps

InitLayer ==
    /\ LayerOnly
    /\ last = NoCall
    /\ \E renderer \in RendererOptions : lyr = NewLayer(renderer)

\* A call of the layer returns or throws.
LayerCall(call, args, st) ==
    /\ lyr' = st.lyr
    /\ last' = Call(call, args, st.thrown, st.notes)
    /\ UNCHANGED <<geoList, geoMap, gId, gZ, gIid, gLayer, uid, hasMap, op, hist, iter,
                   sym, owner, ctx, env, tool, maps>>

\* layer.addTo(map)
LayerAddTo(map, zIndex) ==
    /\ Ready
    /\ lyr.map = NoMap
    /\ lyr.made < MaxRenderers
    /\ LayerCall("addTo", <<map>>, MapAddLayer(LayerState(lyr, <<>>), map, zIndex))

\* layer.remove(): Map.removeLayer(layer) calls _doRemove of a layer of the
\* map.
LayerRemove ==
    /\ Ready
    /\ LayerCall("remove", <<>>,
                 IF lyr.map # NoMap THEN DoRemove(LayerState(lyr, <<>>))
                 ELSE LayerState(lyr, <<>>))

\* The renderer of the layer has drawn: it fires 'layerload'.
LayerLoaded ==
    /\ Ready
    /\ lyr.renderer # NoRenderer
    /\ LayerCall("layerload", <<>>, LayerFire(LayerState(lyr, <<>>), "layerload"))

\* layer.setMask(mask)
LayerSetMask(type) ==
    /\ Ready
    /\ LayerCall("setMask", <<type>>, SetMask(LayerState(lyr, <<>>), type))

NextLayer ==
    \/ \E map \in Maps, zIndex \in ZValues : LayerAddTo(map, zIndex)
    \/ LayerRemove
    \/ LayerLoaded
    \/ \E type \in MaskTypes : LayerSetMask(type)
    \/ Return

SpecLayer == InitLayer /\ [][NextLayer]_vars

(***************************************************************************)
(* Notions the properties below are stated with.                           *)
(***************************************************************************)
\* The position of x in a sequence without repetitions (0: absent).
PositionIn(s, x) ==
    IF x \in Range(s) THEN CHOOSE k \in 1..Len(s) : s[k] = x ELSE 0

\* The sequence and the id map as they were when the call in progress, or
\* the call that takes this step, began.
PreList == IF op.kind = "add" THEN op.preList ELSE geoList
PreMap == IF op.kind = "add" THEN op.preMap ELSE geoMap

\* The geometries a notification of kind ev in the last call was about.
Notified(ev) ==
    {last.notes[k].arg : k \in {j \in 1..Len(last.notes) : last.notes[j].ev = ev}}

(***************************************************************************)
(* C1: after any sequence of successful addGeometry calls, the sequence    *)
(* holds exactly the geometries added, by zIndex ascending, and those of   *)
(* equal zIndex in the order they were added.                              *)
(***************************************************************************)
C1_AddsKeepStableZOrder ==
    (hist.clean /\ op.kind = "idle") =>
        /\ Len(geoList) = Len(hist.added)
        /\ Range(geoList) = Range(hist.added)
        /\ \A j, k \in 1..Len(geoList) :
              j < k =>
                \/ gZ[geoList[j]] < gZ[geoList[k]]
                \/ /\ gZ[geoList[j]] = gZ[geoList[k]]
                   /\ PositionIn(hist.added, geoList[j]) < PositionIn(hist.added, geoList[k])

\* Three geometries were added, two of them of equal zIndex, and the sort
\* moved one: the sequence is not the order of addition.
C1_Witness ==
    /\ hist.clean /\ op.kind = "idle"
    /\ Len(geoList) = 3
    /\ geoList # hist.added
    /\ \E j, k \in 1..3 : j # k /\ gZ[geoList[j]] = gZ[geoList[k]]

(***************************************************************************)
(* C2: an addGeometry that throws the duplicate-id error leaves the        *)
(* sequence and the id map as they were before the call.                   *)
(***************************************************************************)
C2_DuplicateIdLeavesStore ==
    [][(last'.call = "add" /\ last'.thrown = "duplicate")
         => (geoList' = PreList /\ geoMap' = PreMap)]_vars

(***************************************************************************)
(* C3: an addGeometry that meets a null entry at index i throws an error   *)
(* naming i and has changed nothing: the sequence and the id map are as    *)
(* before the call and no 'add' notification was emitted.                  *)
(***************************************************************************)
C3_InvalidEntryAbortsBatch ==
    [][(last'.call = "add" /\ last'.thrown = "invalid")
         => /\ geoList' = PreList
            /\ geoMap' = PreMap
            /\ last'.notes = <<>>
            /\ last'.index = (IF op.kind = "add" THEN op.i ELSE 1) - 1]_vars

(***************************************************************************)
(* C4: in every state the program can observe (after a call returned or    *)
(* threw, and inside the listeners of an 'add' event) the sequence is      *)
(* sorted by the comparator: zIndex ascending, then internal id ascending. *)
(***************************************************************************)
C4_SequenceAlwaysSorted ==
    \A j, k \in 1..Len(geoList) :
        j < k =>
            /\ ~CompareIsNaN(gZ, gIid, geoList[j], geoList[k])
            /\ Compare(gZ, gIid, geoList[j], geoList[k]) <= 0

(***************************************************************************)
(* C5: no two distinct geometries of the sequence have the same non-nil    *)
(* external id.                                                            *)
(***************************************************************************)
C5_ExternalIdsUnique ==
    \A j, k \in 1..Len(geoList) :
        (geoList[j] # geoList[k] /\ gId[geoList[j]] # NoId)
            => gId[geoList[j]] # gId[geoList[k]]

(***************************************************************************)
(* C6: every geometry occurs at most once in the sequence, and the         *)
(* members have pairwise distinct internal ids.                            *)
(***************************************************************************)
C6_NoGeometryTwice ==
    \A j, k \in 1..Len(geoList) :
        j # k => (geoList[j] # geoList[k] /\ gIid[geoList[j]] # gIid[geoList[k]])

(***************************************************************************)
(* C7: when a member with external id k is removed, getGeometryById(k) is  *)
(* null afterwards; an addGeometry is rejected as a duplicate of k only    *)
(* while the map holds a geometry under k, so a later add of another       *)
(* geometry with id k is accepted; and once that geometry is bound,        *)
(* getGeometryById(k) is that geometry.                                    *)
(***************************************************************************)
C7_IdFreedByRemoval ==
    [][/\ \A g \in Geoms :
             (gLayer[g] = "this" /\ gLayer'[g] # "this" /\ gId[g] # NoId)
                 => GetGeometryById(geoMap', gId[g]) = NoGeo
       /\ (last'.call = "add" /\ last'.thrown = "duplicate")
             => (last'.id # NoId /\ geoMap[last'.id] # NoGeo)
       /\ \A g \in Geoms :
             (gLayer[g] = "none" /\ gLayer'[g] = "this" /\ gId[g] # NoId)
                 => GetGeometryById(geoMap', gId[g]) = g]_vars

\* removeGeometry has just removed a member with an id, and another
\* geometry that carries the same id is free to be added.
C7_Witness ==
    /\ last.call = "remove"
    /\ \E g, h \in Geoms :
          /\ <<g>> \in Notified("onGeometryRemove")
          /\ g # h
          /\ gId[g] # NoId /\ gId[h] = gId[g]
          /\ gLayer[h] = "none"
          /\ geoMap[gId[g]] = NoGeo

(***************************************************************************)
(* C8: removeGeometry of a member deletes that geometry from the sequence  *)
(* (the count decreases by one for each member removed and the others keep *)
(* their order), drops its id-map entry and notifies the renderer of it.   *)
(***************************************************************************)
C8_RemovalDeletesMember ==
    [][last'.call = "remove" =>
         LET removed == {g \in Geoms : gLayer[g] = "this" /\ gLayer'[g] # "this"}
         IN  /\ geoList' = SelectSeq(geoList, LAMBDA x : x \notin removed)
             /\ Len(geoList') = Len(geoList) - Cardinality(removed)
             /\ \A g \in removed :
                   /\ gId[g] # NoId => geoMap'[gId[g]] = NoGeo
                   /\ hasMap => <<g>> \in {last'.notes[k].arg :
                                              k \in {j \in 1..Len(last'.notes) :
                                                       last'.notes[j].ev = "onGeometryRemove"}}]_vars

(***************************************************************************)
(* C9: removeGeometry with inputs none of which resolves to a member of    *)
(* this layer (an id the map does not hold, a nil id, a geometry bound to  *)
(* another layer or to none) leaves the sequence and the id map unchanged  *)
(* and makes no renderer removal notification.                             *)
(***************************************************************************)
\* Input x of removeGeometry resolves to a geometry bound to this layer.
ResolvesToMember(x) ==
    \/ x \in Geoms /\ gLayer[x] = "this"
    \/ x \in Ids /\ geoMap[x] # NoGeo /\ gLayer[geoMap[x]] = "this"

C9_RemovalOfNonMemberIsNoOp ==
    [][(last'.call = "remove"
          /\ \A k \in 1..Len(last'.args) : ~ResolvesToMember(last'.args[k]))
         => /\ geoList' = geoList
            /\ geoMap' = geoMap
            /\ \A k \in 1..Len(last'.notes) : last'.notes[k].ev # "onGeometryRemove"]_vars

\* removeGeometry has just returned from a call with two inputs, a geometry
\* bound to another layer among them, while the layer has members; nothing
\* was removed.
C9_Witness ==
    /\ last.call = "remove"
    /\ Len(last.args) = 2
    /\ \E k \in 1..2 : last.args[k] \in Geoms /\ gLayer[last.args[k]] = "other"
    /\ Notified("remove") = {}
    /\ Len(geoList) >= 2

(***************************************************************************)
(* C10: identify returns only visible members whose shape contains the     *)
(* query point and that pass the filter, as a subsequence of the reversed  *)
(* sequence (topmost first); with a count c >= 1 it returns at most c      *)
(* entries, the c topmost matches.                                         *)
(***************************************************************************)
Reverse(s) == [k \in 1..Len(s) |-> s[Len(s) + 1 - k]]

\* t is s with some of its entries left out.
RECURSIVE IsSubsequence(_, _)
IsSubsequence(t, s) ==
    IF t = <<>> THEN TRUE
    ELSE IF s = <<>> THEN FALSE
    ELSE IF Head(t) = Head(s) THEN IsSubsequence(Tail(t), Tail(s))
    ELSE IsSubsequence(t, Tail(s))

\* The hits the last call, an identify, returned.
Hits == [k \in 1..Len(last.notes) |-> last.notes[k].arg[1]]

\* Geometry g matches the query: visible, painted, under the point, accepted.
Matches(scene, options, g) ==
    /\ scene[g] \in {"hit", "arrow"}
    /\ options.hasFilter => g \in options.accepts

C10_IdentifyTopmostFirst ==
    (last.call = "identify" /\ last.thrown = "none") =>
        LET scene == last.args[1]
            options == last.args[2]
            all == SelectSeq(Reverse(geoList), LAMBDA g : Matches(scene, options, g))
        IN  /\ \A k \in 1..Len(Hits) : Matches(scene, options, Hits[k])
            /\ IsSubsequence(Hits, Reverse(geoList))
            /\ options.count >= 1 =>
                  /\ Len(Hits) <= options.count
                  /\ Hits = SubSeq(all, 1, IF Len(all) < options.count
                                           THEN Len(all) ELSE options.count)

\* A query with a count of 2 and a filter on a layer of three distinct
\* geometries, all three under the point and accepted, one of them an arrow
\* line: the two topmost are returned.
C10_Witness ==
    /\ last.call = "identify"
    /\ Len(geoList) = 3 /\ Cardinality(Range(geoList)) = 3
    /\ last.args[2].count = 2 /\ last.args[2].hasFilter
    /\ \A g \in Geoms : Matches(last.args[1], last.args[2], g)
    /\ \E g \in Geoms : last.args[1][g] = "arrow"
    /\ Hits = <<geoList[3], geoList[2]>>

(***************************************************************************)
(* C11: after clear() the sequence is empty, getGeometryById is null for   *)
(* every id and getExtent() is null; getExtent() is null exactly when the  *)
(* layer has no member.                                                    *)
(***************************************************************************)
C11_ClearEmptiesStore ==
    [][/\ last'.call = "clear" =>
             /\ GetCount(geoList') = 0
             /\ \A id \in Ids \cup {NoId} : GetGeometryById(geoMap', id) = NoGeo
             /\ GetExtent(geoList').null
       /\ GetExtent(geoList').null <=> geoList' = <<>>]_vars

\* clear() has just returned on a layer that had two members, one of them
\* with an external id.
C11_Witness ==
    /\ last.call = "clear"
    /\ \E arg \in Notified("onGeometryRemove") :
          Len(arg) >= 2 /\ \E k \in 1..Len(arg) : gId[arg[k]] # NoId
    /\ geoList = <<>>

(***************************************************************************)
(* C12: a successful addGeometry of n >= 1 geometries emits n 'add'        *)
(* notifications, one per entry in batch order, then (on a map) one        *)
(* onGeometryAdd of the renderer, then one 'addgeo', and nothing else; an  *)
(* addGeometry of an empty array emits nothing.                            *)
(***************************************************************************)
\* The indices of the notifications of kind ev among notes.
Indices(notes, ev) == {k \in 1..Len(notes) : notes[k].ev = ev}

\* The array the call of addGeometry that ends with this step was given.
EndingBatch == IF op.kind = "add" THEN op.batch ELSE <<>>

\* notes is what a successful addGeometry(batch) emits.
MembersThenBatch(batch, notes) ==
    LET n == Len(batch) IN
    /\ Indices(notes, "add") = 1..n
    /\ \A k \in 1..n : notes[k].arg = <<batch[k]>>
    /\ Cardinality(Indices(notes, "addgeo")) = 1
    /\ Indices(notes, "addgeo") = {Len(notes)}
    /\ hasMap => Indices(notes, "onGeometryAdd") = {n + 1} /\ Len(notes) = n + 2
    /\ ~hasMap => Indices(notes, "onGeometryAdd") = {} /\ Len(notes) = n + 1

C12_AddNotifiesMembersThenBatch ==
    [][(last'.call = "add" /\ last'.thrown = "none") =>
          IF EndingBatch = <<>>
          THEN last'.notes = <<>>
          ELSE MembersThenBatch(EndingBatch, last'.notes)]_vars

\* C12 as stated: every successful call, of any n, emits 'addgeo' once.
C12_EveryAddEmitsAddgeo ==
    [][(last'.call = "add" /\ last'.thrown = "none") =>
          MembersThenBatch(EndingBatch, last'.notes)]_vars

\* A successful addGeometry of two geometries has just returned.
C12_Witness ==
    /\ last.call = "add" /\ last.thrown = "none"
    /\ Cardinality(Indices(last.notes, "add")) = 2
    /\ Len(last.notes) = 4
    /\ last.notes[4].ev = "addgeo"

(***************************************************************************)
(* C13: removeGeometry and clear remove every member (its 'remove' event   *)
(* fires) before their batch notification, 'removegeo' resp. 'clear',      *)
(* which is emitted once, last; during clear the renderer gets one         *)
(* onGeometryRemove, of the whole former sequence, and none per member.    *)
(***************************************************************************)
C13_RemovalsBeforeBatchNotice ==
    [][(last'.call \in {"remove", "clear"}) =>
          LET notes == last'.notes
              batchEv == IF last'.call = "remove" THEN "removegeo" ELSE "clear"
              unbound == {g \in Geoms : gLayer[g] # "none" /\ gLayer'[g] = "none"}
          IN  /\ Indices(notes, batchEv) = {Len(notes)}
              /\ \A g \in unbound :
                    \E k \in Indices(notes, "remove") : notes[k].arg = <<g>> /\ k < Len(notes)
              /\ \A g \in Geoms :
                    (gLayer[g] = "this" /\ g \in Range(geoList) /\ last'.call = "clear")
                        => g \in unbound
              /\ last'.call = "clear" =>
                    /\ hasMap => Cardinality(Indices(notes, "onGeometryRemove")) = 1
                    /\ \A k \in Indices(notes, "onGeometryRemove") :
                          notes[k].arg = geoList /\ k = Len(notes) - 1]_vars

\* clear() has just returned on a layer of two members: two 'remove' events,
\* one onGeometryRemove of both and the 'clear' event.
C13_Witness ==
    /\ last.call = "clear"
    /\ Cardinality(Indices(last.notes, "remove")) = 2
    /\ \E arg \in Notified("onGeometryRemove") : Len(arg) = 2
    /\ Len(last.notes) = 4

(***************************************************************************)
(* C14: forEach calls fn exactly once for each geometry that was a member  *)
(* when forEach was called, in the order of the sequence at that time,     *)
(* whatever the callbacks add, remove, restack or clear; a geometry that   *)
(* was not a member then is not visited.                                   *)
(***************************************************************************)
C14_ForEachVisitsSnapshotOnce ==
    [][last'.call = "forEach" =>
          LET visited == [k \in 1..Len(last'.notes) |-> last'.notes[k].arg[1]]
          IN  /\ visited = iter.members
              /\ \A g \in Geoms :
                    Count(visited, g) = (IF g \in Range(iter.members) THEN 1 ELSE 0)]_vars

(***************************************************************************)
(* C15: on an idchange {old, new} of a member: a rename to the id the      *)
(* member is already mapped under changes nothing and does not throw;      *)
(* otherwise, if new is non-nil and the map holds a geometry under it, the *)
(* reaction throws the duplicate-id error and leaves the map as it was;    *)
(* otherwise the map afterwards holds the member under new (if non-nil)    *)
(* and nothing under old (if old is non-nil and differs from new).         *)
(***************************************************************************)
C15_IdChangeUpdatesOrRejects ==
    [][last'.call = "setId" =>
          LET target == last'.args[1]
              new == last'.args[2]
              old == gId[target]
          IN  IF new = old /\ old # NoId /\ geoMap[old] = target
              THEN last'.thrown = "none" /\ geoMap' = geoMap
              ELSE IF new # NoId /\ geoMap[new] # NoGeo
              THEN last'.thrown = "duplicate" /\ geoMap' = geoMap
              ELSE /\ last'.thrown = "none"
                   /\ new # NoId => geoMap'[new] = target
                   /\ (old # NoId /\ old # new) => geoMap'[old] = NoGeo
                   /\ \A k \in Ids \ {old, new} : geoMap'[k] = geoMap[k]]_vars

\* A rename of a member to the id of another member has just been rejected:
\* the map holds both under their ids as before.
C15_Witness ==
    /\ last.call = "setId" /\ last.thrown = "duplicate"
    /\ \E k \in Ids : geoMap[k] = last.args[1] /\ k # last.args[2]
    /\ geoMap[last.args[2]] \in Geoms \ {last.args[1]}

(***************************************************************************)
(* C16: every reaction is idempotent: when an event (idchange,             *)
(* zindexchange or one of the forwarded events) was delivered without an   *)
(* error, delivering the same event with the same payload again raises no  *)
(* error and leaves the sequence and the id map as the first delivery left *)
(* them.                                                                   *)
(***************************************************************************)
C16_ReactionsIdempotent ==
    [][(last'.call \in {"setId", "setZIndex", "event"} /\ last'.thrown = "none") =>
          LET delivered ==
                  IF last'.call = "setId"
                  THEN Event("idchange", last'.args[1], gId[last'.args[1]], last'.args[2])
                  ELSE IF last'.call = "setZIndex"
                  THEN Event("zindexchange", last'.args[1],
                             gZ[last'.args[1]], gZ'[last'.args[1]])
                  ELSE Event(last'.args[1], last'.args[2], NoId, NoId)
              again == OnGeometryEvent(geoList', geoMap', gZ', gIid', delivered)
          IN  /\ again.thrown = "none"
              /\ again.map = geoMap'
              /\ again.lists = {geoList'}]_vars

(***************************************************************************)
(* C17: a zindexchange sorts the sequence and tells the renderer only when *)
(* old differs from new; the forwarded events reach the renderer when      *)
(* there is one and leave the sequence and the id map as they are; an      *)
(* event without a target changes nothing.                                 *)
(***************************************************************************)
C17_OnlyZIndexChangeReorders ==
    [][/\ last'.call = "setZIndex" =>
             LET target == last'.args[1] IN
             /\ geoMap' = geoMap
             /\ IF gZ[target] # gZ'[target]
                THEN /\ geoList' \in Rearrangements(geoList)
                     /\ (\A g \in Range(geoList) : gIid[g] # 0)
                           => IsSorted(geoList', gZ', gIid')
                     /\ hasMap => last'.notes = <<Note("onGeometryZIndexChange", <<target>>)>>
                     /\ ~hasMap => last'.notes = <<>>
                ELSE geoList' = geoList /\ last'.notes = <<>>
       /\ last'.call = "event" =>
             LET type == last'.args[1]
                 target == last'.args[2]
             IN  /\ geoList' = geoList /\ geoMap' = geoMap
                 /\ last'.thrown = "none"
                 /\ (target # NoGeo /\ hasMap)
                       => last'.notes = <<Note(RendererCall(type), <<target>>)>>
                 /\ (target = NoGeo \/ ~hasMap) => last'.notes = <<>>]_vars

\* A zindexchange of a member has just moved it behind another member, and
\* the renderer was told.
C17_Witness ==
    /\ last.call = "setZIndex"
    /\ Len(geoList) >= 2
    /\ geoList[Len(geoList)] = last.args[1]
    /\ gIid[geoList[1]] > gIid[last.args[1]]
    /\ gIid[last.args[1]] # 0
    /\ last.notes # <<>>

(***************************************************************************)
(* C18: a lookup miss raises nothing: getGeometryById is null for a nil,   *)
(* an empty and an unknown id, and identify returns normally, with an      *)
(* empty list when no member matches, on a map or not.                     *)
(***************************************************************************)
C18_LookupMissIsNotFatal ==
    /\ \A id \in Ids \cup {NoId, EmptyId} :
          (id \notin Ids \/ geoMap[id] = NoGeo) => GetGeometryById(geoMap, id) = NoGeo
    /\ last.call = "identify" =>
          /\ last.thrown = "none"
          /\ (\A g \in Range(geoList) : ~Matches(last.args[1], last.args[2], g))
                => Hits = <<>>

(***************************************************************************)
(* C19: internal ids are assigned at add time and increase with every      *)
(* binding: a geometry that is bound, for the first time or again after a  *)
(* removal, gets an internal id greater than every internal id assigned    *)
(* before.  (Every id assigned so far is at most the counter uid.)         *)
(***************************************************************************)
C19_InternalIdsIncrease ==
    [][/\ uid' >= uid
       /\ \A g \in Geoms : gIid[g] <= uid /\ gIid'[g] <= uid'
       /\ \A g \in Geoms :
             (gLayer[g] = "none" /\ gLayer'[g] # "none")
                 => /\ gIid'[g] > uid
                    /\ \A h \in Geoms : gIid'[g] > gIid[h]]_vars

\* A geometry has just been bound with the internal id 3 on a layer whose
\* earlier members, of ids 1 and 2, were removed.
C19_Witness ==
    /\ op.kind = "add"
    /\ uid = 3
    /\ Len(geoList) = 1
    /\ gLayer[geoList[1]] = "this"
    /\ gIid[geoList[1]] = 3
    /\ \A g \in Geoms \ {geoList[1]} : gLayer[g] = "none"

(***************************************************************************)
(* C20: translate() resolves a text symbol to a style in which every       *)
(* property other than textName that the symbol lacks or has as null has   *)
(* its default and every other supplied value is kept; for                 *)
(* {textName: 'Hi'} it yields textSize 10, textFill '#000', textOpacity 1, *)
(* textHaloRadius 0, textDx 0 and textDy 0; the style depends on the       *)
(* symbol alone and the symbol is not modified.                            *)
(***************************************************************************)
\* The symbol {textName: 'Hi'}.
JustHi == [prop \in TextProps |-> IF prop = "textName" THEN "Hi" ELSE Absent]

C20_TranslateFillsDefaults ==
    last.call = "translate" =>
        /\ \A prop \in TextProps :
              IF prop # "textName" /\ sym.symbol[prop] \in {Absent, NilValue}
              THEN sym.style[prop] = TranslateText(JustHi)[prop]
              ELSE sym.style[prop] = sym.symbol[prop]
        /\ sym.style = TranslateText(sym.symbol)
        /\ sym.symbol = JustHi =>
              /\ sym.style["textSize"] = "10"
              /\ sym.style["textFill"] = "#000"
              /\ sym.style["textOpacity"] = "1"
              /\ sym.style["textHaloRadius"] = "0"
              /\ sym.style["textDx"] = "0"
              /\ sym.style["textDy"] = "0"
        /\ sym.symbol = last.args[1]

\* A symbol with a textDx, a null textDy and an opacity of 0 was translated.
C20_Witness ==
    /\ last.call = "translate"
    /\ sym.symbol["textDx"] = "5"
    /\ sym.symbol["textDy"] = NilValue
    /\ sym.symbol["textOpacity"] = "0"
    /\ sym.style["textDy"] = "0"
    /\ sym.style["textOpacity"] = "0"

(***************************************************************************)
(* C21: a symbolizer whose symbol is dynamic never reads and never writes  *)
(* the text cache of its geometry: its construction and each of its draws  *)
(* leaves the cache as it was, calls neither _loadFromCache nor            *)
(* _storeToCache, and computes the layout anew (once at construction, once *)
(* in every symbolize that draws).                                         *)
(***************************************************************************)
\* How many times the last call called ev.
Times(notes, ev) == Cardinality(Indices(notes, ev))

C21_DynamicBypassesCache ==
    [][(last.call = "none" /\ last'.call \in {"construct", "symbolize"} /\ sym'.dynamic)
         => /\ owner'.cache = owner.cache
            /\ Times(last'.notes, "loadFromCache") = 0
            /\ Times(last'.notes, "storeToCache") = 0
            /\ (last'.call = "construct" \/ Times(last'.notes, "text") > 0)
                 => /\ Times(last'.notes, "splitTextToRow") = 1
                    /\ sym'.textDesc =
                         SplitTextToRow(ReplaceVariable(sym'.style["textName"],
                                                        owner.properties),
                                        sym'.style)]_vars

\* A dynamic symbolizer, whose geometry has a cached layout of an earlier
\* static symbolizer, has drawn its text.
C21_Witness ==
    /\ last.call = "symbolize"
    /\ sym.dynamic
    /\ owner.cache # {}
    /\ Times(last.notes, "text") = 2
    /\ Times(last.notes, "splitTextToRow") = 1

(***************************************************************************)
(* C22: when not under Node, the second and every later draw of a static   *)
(* symbolizer whose content is the one it was built with computes no       *)
(* layout and takes it from the cache; and building a symbolizer for the   *)
(* same geometry with another textSize gives another cache key, and when   *)
(* no entry is under that key, the layout is computed and stored under it  *)
(* while every entry the cache held is left as it was.                     *)
(***************************************************************************)
\* The content the symbolizer would draw now.
ContentNow == ReplaceVariable(sym.style["textName"], owner.properties)

\* The step is a draw, not the first, of a static symbolizer whose content
\* has not changed since it was built.
LaterStaticDraw ==
    /\ last.call = "none" /\ last'.call = "symbolize"
    /\ Times(last'.notes, "text") > 0
    /\ ~sym.dynamic
    /\ sym.draws >= 1
    /\ sym.cacheKey[1] = ContentNow

\* The step builds a static symbolizer in place of a static one of another
\* textSize.
RebuildWithOtherSize ==
    /\ last.call = "none" /\ last'.call = "construct"
    /\ sym.built /\ ~sym.dynamic /\ ~sym'.dynamic
    /\ sym'.style["textSize"] # sym.style["textSize"]

CachedKeys(cache) == {e.key : e \in cache}

C22_StaticDrawsFromCache ==
    [][~env.IS_NODE =>
         /\ LaterStaticDraw =>
               /\ Times(last'.notes, "splitTextToRow") = 0
               /\ [key |-> sym.cacheKey, desc |-> sym'.textDesc] \in owner.cache
               /\ owner'.cache = owner.cache
         /\ RebuildWithOtherSize =>
               /\ sym'.cacheKey # sym.cacheKey
               /\ owner.cache \subseteq owner'.cache
               /\ sym'.cacheKey \notin CachedKeys(owner.cache) =>
                     /\ Times(last'.notes, "splitTextToRow") = 1
                     /\ owner'.cache = owner.cache \cup
                           {[key |-> sym'.cacheKey, desc |-> sym'.textDesc]}]_vars

\* The claim as it was made: whatever the environment, and a miss for every
\* other textSize.
C22_AsClaimed ==
    [][/\ LaterStaticDraw => Times(last'.notes, "splitTextToRow") = 0
       /\ RebuildWithOtherSize =>
             /\ sym'.cacheKey # sym.cacheKey
             /\ Times(last'.notes, "splitTextToRow") = 1
             /\ owner.cache \subseteq owner'.cache
             /\ [key |-> sym'.cacheKey, desc |-> sym'.textDesc] \in owner'.cache]_vars

\* Not under Node, a static symbolizer built with a textSize of 20 after one
\* of the default size has drawn for the second time: the cache holds both
\* layouts and none was computed in this draw.
C22_Witness ==
    /\ ~env.IS_NODE
    /\ last.call = "symbolize"
    /\ ~sym.dynamic
    /\ sym.draws = 2
    /\ sym.style["textSize"] = "20"
    /\ Times(last.notes, "text") > 0
    /\ Times(last.notes, "splitTextToRow") = 0
    /\ Cardinality({e \in owner.cache : e.key[1] = ContentNow}) = 2

(***************************************************************************)
(* C23: a symbolize of a marker whose resolved width, height or opacity is *)
(* zero issues no draw primitive and leaves the drawing surface as it was; *)
(* this includes a marker whose unset width or height is resolved to zero  *)
(* from the natural size of its image.                                     *)
(***************************************************************************)
ZeroMarker(style) ==
    \/ style["markerWidth"] = "0"
    \/ style["markerHeight"] = "0"
    \/ style["markerOpacity"] = "0"

C23_ZeroSizeDrawsNothing ==
    [][(last.call = "none" /\ last'.call = "symbolize" /\ ZeroMarker(sym'.style))
         => /\ Times(last'.notes, "image") = 0
            /\ Times(last'.notes, "save") = 0
            /\ ctx' = ctx]_vars

\* The same for the size the style has when symbolize is called, which is
\* what the code tests.
C23_ZeroStyleDrawsNothing ==
    [][(last.call = "none" /\ last'.call = "symbolize" /\ ZeroMarker(sym.style))
         => /\ last'.notes = <<>>
            /\ ctx' = ctx]_vars

(***************************************************************************)
(* C24: when a symbolize of an image marker returns, globalAlpha of the    *)
(* surface is what it was before the call, an opacity below 1 having       *)
(* scaled it for the images drawn in the call only; and every frame saved  *)
(* for a rotated anchor point is restored right after the image of that    *)
(* point is drawn, before anything is done for the next point, so that     *)
(* there are as many restores as saves.                                    *)
(***************************************************************************)
\* The frames saved and not yet restored after the first k calls of notes.
FramesOpen(notes, k) ==
    Cardinality({j \in 1..k : notes[j].ev = "save"})
      - Cardinality({j \in 1..k : notes[j].ev = "restore"})

SymbolizeStep == last.call = "none" /\ last'.call = "symbolize"
ImageMissing == GetImageOf(last'.args[1], env.resources, sym.style) = NoImage

\* symbolize returns before it looks for the image.
ReturnsEarly == ZeroMarker(sym.style) \/ owner.points = <<>>

C25_MissingImageWarnsAndSkips ==
    [][SymbolizeStep =>
         /\ ImageMissing =>
               /\ last'.thrown = "none"
               /\ Times(last'.notes, "image") = 0
               /\ ctx' = ctx
               /\ sym'.style = sym.style
               /\ Times(last'.notes, "warn") =
                     IF ReturnsEarly \/ env.phantomjs THEN 0 ELSE 1
         /\ (~ImageMissing /\ ~ReturnsEarly) =>
               /\ Times(last'.notes, "image") = Len(owner.points)
               /\ Times(last'.notes, "warn") = 0]_vars

\* The claim as it was made: a warning whenever the image is not available.
C25_AsClaimed ==
    [][SymbolizeStep =>
         /\ ImageMissing =>
               /\ last'.thrown = "none"
               /\ Times(last'.notes, "image") = 0
               /\ ctx' = ctx
               /\ sym'.style = sym.style
               /\ Times(last'.notes, "warn") = 1
         /\ (~ImageMissing /\ ~ReturnsEarly) =>
               /\ Times(last'.notes, "image") = Len(owner.points)
               /\ Times(last'.notes, "warn") = 0]_vars

\* A symbolize given a resource cache that has no image yet, for a marker of
\* opacity 0.5 with two points, has recorded the warning and drawn nothing.
C25_Witness ==
    /\ last.call = "symbolize"
    /\ last.args = <<TRUE>>
    /\ env.resources = {}
    /\ sym.style["markerOpacity"] = "0.5"
    /\ Len(owner.points) = 2
    /\ Times(last.notes, "warn") = 1
    /\ Times(last.notes, "image") = 0

(***************************************************************************)
(* C26: the first symbolize that draws a marker whose width or height is   *)
(* unset resolves the unset dimension from the natural size of the image,  *)
(* stores the size in the style and has the image registered under the     *)
(* key [file, width, height]; a later symbolize finds the image under that *)
(* key and resolves and registers nothing; and a dimension the symbol      *)
(* gives keeps the value given.                                            *)
(***************************************************************************)
Dimensions == {"markerWidth", "markerHeight"}

NaturalSize(img, dim) == IF dim = "markerWidth" THEN img.width ELSE img.height

C26_SizeResolvedOnce ==
    [][(SymbolizeStep /\ ~ImageMissing /\ ~ReturnsEarly)
         => LET img == GetImageOf(last'.args[1], env.resources, sym.style) IN
            /\ \A dim \in Dimensions :
                  sym'.style[dim] =
                     IF IsNumber(sym.symbol[dim]) THEN sym.symbol[dim]
                     ELSE NaturalSize(img, dim)
            /\ IsResourceLoaded(env'.resources, ImageURL(sym'.style))
            /\ (\A dim \in Dimensions : IsNumber(sym.style[dim]))
                 => /\ sym'.style = sym.style
                    /\ env'.resources = env.resources
                    /\ Times(last'.notes, "addResource") = 0]_vars

(***************************************************************************)
(* C27: an addGeometry with fitView = true that returns, on a layer that   *)
(* is on a map, sets the centre and the zoom of the map once, to the       *)
(* average of the centres and to the union of the extents of the           *)
(* geometries of the array that have both a centre and an extent, when     *)
(* there is one; when there is none, or fitView is not true, or the layer  *)
(* is on no map, or the call throws, the view is not changed.              *)
(***************************************************************************)
RECURSIVE SumOfCenters(_)
SumOfCenters(S) ==
    IF S = {} THEN 0
    ELSE LET g == CHOOSE x \in S : TRUE
         IN  Geometry_getCenter(g) + SumOfCenters(S \ {g})

\* The union of the extents of the geometries of S, S not empty.
UnionOfExtents(S) ==
    [xmin |-> CHOOSE lo \in {Geometry_getExtent(g).xmin : g \in S} :
                 \A g \in S : lo <= Geometry_getExtent(g).xmin,
     xmax |-> CHOOSE hi \in {Geometry_getExtent(g).xmax : g \in S} :
                 \A g \in S : hi >= Geometry_getExtent(g).xmax]

\* The geometries of the array of the call that ends with this step which
\* have a centre and an extent.
FitMembers ==
    IF op.kind = "add"
    THEN {g \in Range(op.batch) : op.fit.shapes[g] = "both"}
    ELSE {}

C27_FitViewOverDefinedMembers ==
    [][(last.call = "none" /\ last'.call = "add")
         => LET moves == {last'.notes[k].arg : k \in Indices(last'.notes, "setCenterAndZoom")}
            IN  IF /\ last'.thrown = "none"
                   /\ hasMap
                   /\ op.kind = "add" /\ op.fit.fitView = "true"
                   /\ FitMembers # {}
                THEN /\ Times(last'.notes, "setCenterAndZoom") = 1
                     /\ moves = {<<SumOfCenters(FitMembers), Cardinality(FitMembers),
                                   UnionOfExtents(FitMembers)>>}
                ELSE moves = {}]_vars

\* Three geometries are in the layer, and the last addGeometry, with
\* fitView = true, has fitted the view to the two it added, g1 and g3.
C27_Witness ==
    /\ last.call = "add" /\ last.thrown = "none"
    /\ Len(geoList) = 3
    /\ \E k \in 1..Len(last.notes) :
          /\ last.notes[k].ev = "setCenterAndZoom"
          /\ last.notes[k].arg[2] = 2
          /\ last.notes[k].arg[3] = [xmin |-> -1, xmax |-> 11]

(***************************************************************************)
(* C28: a removeGeometry none of whose inputs resolves to a member of the  *)
(* layer emits no 'removegeo', and a 'removegeo' lists only geometries     *)
(* that the call removed from the sequence.                                *)
(***************************************************************************)
C28_RemovegeoOnlyForRemoved ==
    [][(last.call = "none" /\ last'.call = "remove")
         => LET removed == Range(geoList) \ Range(geoList') IN
            \A k \in Indices(last'.notes, "removegeo") :
                /\ removed # {}
                /\ Range(last'.notes[k].arg) \subseteq removed]_vars

(***************************************************************************)
(* C30: whenever no call is in progress, the id map and the sequence       *)
(* agree: every entry k -> g of the map has g in the sequence with g's     *)
(* external id being k, and every member of the sequence that has an       *)
(* external id k is what getGeometryById(k) returns.                       *)
(***************************************************************************)
C30_MapAndSequenceAgree ==
    op.kind = "idle" =>
        /\ \A k \in Ids :
              geoMap[k] # NoGeo =>
                  (geoMap[k] \in Range(geoList) /\ gId[geoMap[k]] = k)
        /\ \A g \in Range(geoList) :
              gId[g] # NoId => GetGeometryById(geoMap, gId[g]) = g

(***************************************************************************)
(* C29: when clear() has returned, whatever the listeners of the members'  *)
(* 'remove' events did to the layer meanwhile, a geometry is bound to the  *)
(* layer exactly when it is in the sequence, and every member that has an  *)
(* id is in the id map under it.                                           *)
(***************************************************************************)
C29_ClearSafeUnderReentrancy ==
    last.call = "clear" =>
        /\ \A g \in Geoms : gLayer[g] = "this" <=> g \in Range(geoList)
        /\ \A g \in Range(geoList) : gId[g] # NoId => geoMap[gId[g]] = g

(***************************************************************************)
(* C31: the layout a static symbolizer draws with is the layout of the     *)
(* content it draws in that call, also when the geometry's properties      *)
(* changed since the symbolizer was built: every text drawn is drawn with  *)
(* splitTextToRow's layout of that text.                                   *)
(***************************************************************************)
C31_LayoutOfDrawnContent ==
    [][(last.call = "none" /\ last'.call = "symbolize" /\ ~sym.dynamic)
         => \A k \in Indices(last'.notes, "text") :
               last'.notes[k].arg[2] = SplitTextToRow(last'.notes[k].arg[1], sym.style)]_vars

(***************************************************************************)
(* C32: when the tools are used with one map, whatever addTo, enable and   *)
(* disable calls were made, the handlers of a tool are registered on its   *)
(* map once when isEnabled() is true and not at all when it is false, and  *)
(* on no other map.                                                        *)
(***************************************************************************)
C32_RegisteredIffEnabled ==
    \A t \in Tools, m \in Maps :
        maps[m].handlers[t] = IF IsEnabled(tool, t) /\ GetMap(tool, t) = m THEN 1 ELSE 0

\* A tool that was disabled by the addTo of another tool of its name has
\* been enabled again.
C32_Witness ==
    /\ last.call = "enable" /\ last.args = <<"t1">> /\ last.notes # <<>>
    /\ maps["m1"].tools["Draw"] = "t2"
    /\ IsEnabled(tool, "t1")
    /\ maps["m1"].handlers["t1"] = 1

(***************************************************************************)
(* C33: never are two tools of one name enabled on the same map.           *)
(***************************************************************************)
C33_OneEnabledToolPerName ==
    \A t, u \in Tools :
        (t # u /\ ToolName(t) = ToolName(u) /\ IsEnabled(tool, t) /\ IsEnabled(tool, u))
            => GetMap(tool, t) # GetMap(tool, u)

(***************************************************************************)
(* C34: enable() of a tool that is enabled or has no map, and disable() of *)
(* a tool that is not enabled, change nothing, fire no event and call no   *)
(* hook; in every call the 'enable' and 'disable' events of a tool         *)
(* alternate, beginning with the one that the tool's state before the call *)
(* allows and ending in the tool's state after it (so that they alternate  *)
(* over the calls, starting with 'enable'); and in addTo the 'enable'      *)
(* event of the tool comes before its 'add' event.                         *)
(***************************************************************************)
\* The 'enable' and 'disable' events of tool t among the notes, in order.
Switches(notes, t) ==
    LET IsSwitch(n) == n.ev \in {"enable", "disable"} /\ n.arg = <<t>>
        sw == SelectSeq(notes, IsSwitch)
    IN  [k \in 1..Len(sw) |-> sw[k].ev]

\* The events alternate, from a tool that was enabled or not.
Alternate(events, enabled) ==
    \A k \in 1..Len(events) :
        events[k] = IF (k % 2 = 1) = enabled THEN "disable" ELSE "enable"

C34_EnableDisableOnTransitions ==
    [][(last.call = "none" /\ last'.call \in {"addTo", "enable", "disable"})
         => LET t == last'.args[1] IN
            /\ (last'.call = "enable" /\ (IsEnabled(tool, t) \/ GetMap(tool, t) = NoMap))
                 => last'.notes = <<>> /\ tool' = tool /\ maps' = maps
            /\ (last'.call = "disable" /\ ~IsEnabled(tool, t))
                 => last'.notes = <<>> /\ tool' = tool /\ maps' = maps
            /\ \A u \in Tools :
                  LET events == Switches(last'.notes, u) IN
                  /\ Alternate(events, IsEnabled(tool, u))
                  /\ IsEnabled(tool', u) =
                        IF events = <<>> THEN IsEnabled(tool, u)
                        ELSE events[Len(events)] = "enable"
                  /\ Times(last'.notes, "onEnable") =
                        Cardinality({k \in Indices(last'.notes, "enable") :
                                        last'.notes[k].arg[1] \in Hooked})
                  /\ Times(last'.notes, "onDisable") =
                        Cardinality({k \in Indices(last'.notes, "disable") :
                                        last'.notes[k].arg[1] \in Hooked})
            /\ last'.call = "addTo"
                 => \A i \in Indices(last'.notes, "enable"), j \in Indices(last'.notes, "add") :
                       last'.notes[i].arg = <<t>> => i < j]_vars

\* addTo of a tool to the map it is enabled on: it is disabled, enabled and
\* then added.
C34_Witness ==
    /\ last.call = "addTo"
    /\ Switches(last.notes, last.args[1]) = <<"disable", "enable">>
    /\ Times(last.notes, "add") = 1

(***************************************************************************)
(* C35: when tool.addTo(m) has returned for a map m, getMap() is m, the    *)
(* tool is enabled, its handlers are registered on m and on no other map.  *)
(***************************************************************************)
C35_AddToLeavesToolOnMap ==
    (last.call = "addTo" /\ last.args[2] # NoMap)
        => LET t == last.args[1]
               m == last.args[2]
           IN  /\ GetMap(tool, t) = m
               /\ IsEnabled(tool, t)
               /\ maps[m].handlers[t] >= 1
               /\ \A other \in Maps \ {m} : maps[other].handlers[t] = 0

(***************************************************************************)
(* C36: a layer can be removed from a map and added again.  When remove()  *)
(* has taken the layer from its map, isLoaded() is false and the layer has *)
(* no map, no renderer and no mask; when addTo(map) has returned for a     *)
(* layer on no map, the layer is on the map with a renderer that none of   *)
(* its earlier cycles had, and isLoaded() is false until that renderer     *)
(* fires 'layerload', which makes it true.                                 *)
(***************************************************************************)
C36_RemoveAndAddAgain ==
    [][/\ (last.call = "none" /\ last'.call = "remove")
             => /\ ~IsLoaded(lyr')
                /\ lyr'.map = NoMap
                /\ lyr'.renderer = NoRenderer
                /\ lyr'.mask = NoMask
       /\ (last.call = "none" /\ last'.call = "addTo" /\ last'.thrown = "none")
             => /\ lyr'.map = last'.args[1]
                /\ lyr'.renderer # NoRenderer
                /\ lyr'.renderer > lyr.made
                /\ ~IsLoaded(lyr')
       /\ (last.call = "none" /\ last'.call = "layerload")
             => /\ IsLoaded(lyr')
                /\ Times(last'.notes, "layerload") = 1
                /\ lyr'.renderer = lyr.renderer]_vars

\* The layer was removed and added again, and the renderer of its second
\* cycle has fired 'layerload'.
C36_Witness ==
    /\ last.call = "layerload"
    /\ lyr.renderer = 2
    /\ IsLoaded(lyr)
    /\ lyr.mask = NoMask

====
